---- MODULE Spec2Model ----
(***************************************************************************)
(* Access-control evaluation engine of pkg/services/accesscontrol:         *)
(* the scope matcher, the Permission / All / Any evaluator tree with its   *)
(* Evaluate, String and ModifyScopes operations.                           *)
(*                                                                         *)
(* Scopes and actions are Go strings; they are modelled as sequences of    *)
(* one-character strings so that prefixes, last characters and equality    *)
(* are computed the way the code computes them.                            *)
(***************************************************************************)
EXTENDS Integers, Sequences, FiniteSets, TLC

VARIABLES
    pc,        \* which operation has run
    scope,     \* match: the granted scope
    target,    \* match: the required scope
    matchRes,  \* what match returned
    tree,      \* the evaluator tree the operations are called on
    granted,   \* Evaluate: the permissions, action -> set of scopes
    evalRes,   \* what Evaluate returned, with the log of its calls
    fn,        \* ModifyScopes: the modifier passed
    modRes,    \* what ModifyScopes returned, with the modifier's calls
    before,    \* the tree as it was when ModifyScopes was called
    user,      \* keyword resolution: the signed-in user
    params,    \* ScopeInjector: the parameters bound into the modifier
    mutRes,    \* what a single call of a scope modifier returned
    registry,  \* attribute resolution: the resolvers, keyed by prefix
    regOrder,  \* the prefixes in the order they were registered
    db,        \* the store: whether it answers, and its datasources
    ctx,       \* the request context: live, cancelled or timed out
    again,     \* what a second pass of the attribute modifier returned
    lookup,    \* the resolver call in progress, if any
    procs,     \* concurrent calls on one tree: each call's progress
    wider,     \* Evaluate: permissions that include the granted ones
    widerRes,  \* what Evaluate returned under the wider permissions
    prefs,     \* the preferences table: its rows
    saved,     \* per key, the last command saved and how many were
    got,       \* what the last call to return returned, and for which key
    saving,    \* per SavePreferences call, what it read and is to write
    overlapped \* whether a SavePreferences call started during another

\* the variables of match, Evaluate and ModifyScopes
coreVars == <<scope, target, matchRes, tree, granted, evalRes,
              fn, modRes, before>>

\* the variables of the scope modifiers
extVars == <<user, params, mutRes>>

\* the variables of attribute resolution
resVars == <<registry, regOrder, db, ctx, again, lookup>>

\* the variables of a second evaluation under more permissions
monoVars == <<wider, widerRes>>

\* the variables of the preferences store
prefVars == <<prefs, saved, got, saving, overlapped>>

vars == <<pc, coreVars, extVars, resVars, procs, monoVars, prefVars>>

(***************************************************************************)
(* Bounds of the model.                                                    *)
(***************************************************************************)
\* longest scope / target string given to match
MaxLen == 3
\* largest number of nodes of an evaluator tree
MaxNodes == 4
\* longest list of required scopes of a permission leaf evaluated alone
MaxScopes == 2
\* largest set of scopes granted for one action
MaxGranted == 2

\* the characters scopes are made of: an ordinary one, the segment
\* separator and the two meta-characters the matcher's log message names
Chars == {"a", ":", "*", "?"}

Strings == UNION {[1..k -> Chars] : k \in 0..MaxLen}

\* Go's nil error
NilErr == "nil"

\* value of a result variable before its operation has run
NoResult == [ok |-> FALSE, err |-> "unset"]

(***************************************************************************)
(* String helpers (package strings).                                       *)
(***************************************************************************)
\* strings.HasPrefix(s, prefix)
HasPrefix(s, prefix) ==
    /\ Len(s) >= Len(prefix)
    /\ SubSeq(s, 1, Len(prefix)) = prefix

\* strings.ContainsAny(s, chars)
ContainsAny(s, chars) == \E i \in 1..Len(s) : s[i] \in chars

(***************************************************************************)
(* ValidateScope: a wildcard character is permitted only as the final      *)
(* character of the scope.  match calls it on a non-empty scope only.      *)
(***************************************************************************)
ValidateScope(s) ==
    LET prefix == SubSeq(s, 1, Len(s) - 1)
    IN  ~ContainsAny(prefix, {"*", "?"})

(***************************************************************************)
(* match(scope, target) (bool, error)                                      *)
(***************************************************************************)
\* mutant: the validity check is skipped
match_NoValidate(s, t) ==
    IF s = <<>> THEN [ok |-> FALSE, err |-> NilErr]
    ELSE LET prefix == SubSeq(s, 1, Len(s) - 1)
             last   == s[Len(s)]
         IN  IF last = "*" /\ HasPrefix(t, prefix)
             THEN [ok |-> TRUE, err |-> NilErr]
             ELSE [ok |-> (s = t), err |-> NilErr]

\* mutant: a wildcard scope matches only a strictly longer target
match_StrictPrefix(s, t) ==
    IF s = <<>> THEN [ok |-> FALSE, err |-> NilErr]
    ELSE IF ~ValidateScope(s) THEN [ok |-> FALSE, err |-> NilErr]
    ELSE LET prefix == SubSeq(s, 1, Len(s) - 1)
             last   == s[Len(s)]
         IN  IF last = "*" /\ HasPrefix(t, prefix) /\ Len(t) > Len(prefix)
             THEN [ok |-> TRUE, err |-> NilErr]
             ELSE [ok |-> (s = t), err |-> NilErr]

\* mutant: a scope without wildcard is also matched as a prefix
match_PrefixOnly(s, t) ==
    IF s = <<>> THEN [ok |-> FALSE, err |-> NilErr]
    ELSE IF ~ValidateScope(s) THEN [ok |-> FALSE, err |-> NilErr]
    ELSE LET prefix == SubSeq(s, 1, Len(s) - 1)
             last   == s[Len(s)]
         IN  IF last = "*" /\ HasPrefix(t, prefix)
             THEN [ok |-> TRUE, err |-> NilErr]
             ELSE [ok |-> HasPrefix(t, s), err |-> NilErr]

\* mutant: an empty scope is compared like any other scope
match_EmptyExact(s, t) ==
    IF s = <<>> THEN [ok |-> (s = t), err |-> NilErr]
    ELSE IF ~ValidateScope(s) THEN [ok |-> FALSE, err |-> NilErr]
    ELSE LET prefix == SubSeq(s, 1, Len(s) - 1)
             last   == s[Len(s)]
         IN  IF last = "*" /\ HasPrefix(t, prefix)
             THEN [ok |-> TRUE, err |-> NilErr]
             ELSE [ok |-> (s = t), err |-> NilErr]

\* mutant: an invalid scope is reported as an error
match_InvalidErrors(s, t) ==
    IF s = <<>> THEN [ok |-> FALSE, err |-> NilErr]
    ELSE IF ~ValidateScope(s) THEN [ok |-> FALSE, err |-> "invalid scope"]
    ELSE LET prefix == SubSeq(s, 1, Len(s) - 1)
             last   == s[Len(s)]
         IN  IF last = "*" /\ HasPrefix(t, prefix)
             THEN [ok |-> TRUE, err |-> NilErr]
             ELSE [ok |-> (s = t), err |-> NilErr]

match(s, t) ==
    IF s = <<>> THEN [ok |-> FALSE, err |-> NilErr]
    ELSE IF ~ValidateScope(s) THEN [ok |-> FALSE, err |-> NilErr]
    ELSE LET prefix == SubSeq(s, 1, Len(s) - 1)
             last   == s[Len(s)]
         IN  IF last = "*" /\ HasPrefix(t, prefix)
             THEN [ok |-> TRUE, err |-> NilErr]
             ELSE [ok |-> (s = t), err |-> NilErr]

(***************************************************************************)
(* Evaluators.  An Evaluator is one of                                     *)
(*   permissionEvaluator{Action, Scopes}   kind "perm"                     *)
(*   allEvaluator{allOf}                   kind "all"                      *)
(*   anyEvaluator{anyOf}                   kind "any"                      *)
(* Scopes is a Go slice, modelled as [nil, elems]: ModifyScopes tells the   *)
(* nil slice from an empty one.  The children of a combinator are a plain  *)
(* sequence: no code tells a nil list of children from an empty one.       *)
(* Evaluator is an interface, so a combinator's child may be any other     *)
(* implementation; kind "stub" stands for one whose Evaluate returns the   *)
(* fixed pair (ok, err).  The nil Evaluator has kind "nil".                *)
(***************************************************************************)
\* the nil slice, as of a variadic call with no argument
NilSlice == [nil |-> TRUE, elems |-> <<>>]

\* a non-nil slice holding elems (make followed by append, or a literal)
MakeSlice(elems) == [nil |-> FALSE, elems |-> elems]

\* EvalPermission(action, scopes...)
EvalPermission(action, scopes) ==
    [kind |-> "perm", Action |-> action, Scopes |-> scopes]

EvalAll(allOf) == [kind |-> "all", allOf |-> allOf]

EvalAny(anyOf) == [kind |-> "any", anyOf |-> anyOf]

StubEvaluator(ok, err) == [kind |-> "stub", ok |-> ok, err |-> err]

NilEvaluator == [kind |-> "nil"]

\* the children of a combinator (no children for the other kinds)
Children(e) ==
    IF e.kind = "all" THEN e.allOf
    ELSE IF e.kind = "any" THEN e.anyOf
    ELSE <<>>

(***************************************************************************)
(* Evaluate.  The result carries, besides (ok, err), the log of the calls  *)
(* made: one entry per evaluator whose Evaluate returned, in the order of  *)
(* return, with the position of the evaluator in the tree (the sequence of *)
(* child indexes from the root) and what it returned.                      *)
(*                                                                         *)
(* `for scope := range userScopes` ranges over a Go map in an unspecified  *)
(* order: ord is a sequence holding every granted scope of the map once,   *)
(* and the loop visits the members of the set in the order ord gives them. *)
(***************************************************************************)
RangeOrder(userScopes, ord) == SelectSeq(ord, LAMBDA x : x \in userScopes)

RECURSIVE ScopeLoop(_, _, _)
\* mutant: the first granted scope visited decides
ScopeLoop_FirstDecides(us, j, t) ==
    IF j > Len(us) THEN [matches |-> FALSE, err |-> NilErr]
    ELSE LET r == match(us[j], t)
         IN  IF r.err # NilErr THEN [matches |-> r.ok, err |-> r.err]
             ELSE [matches |-> r.ok, err |-> NilErr]

\* evaluator.go 65-73: the inner loop over the granted scopes of the action
ScopeLoop(us, j, t) ==
    IF j > Len(us) THEN [matches |-> FALSE, err |-> NilErr]
    ELSE LET r == match(us[j], t)
         IN  IF r.err # NilErr THEN [matches |-> r.ok, err |-> r.err]
             ELSE IF r.ok THEN [matches |-> TRUE, err |-> NilErr]
             ELSE ScopeLoop(us, j + 1, t)

RECURSIVE TargetLoop(_, _, _)
\* mutant: the leaf is satisfied as soon as one required scope is matched
TargetLoop_AnyTarget(scopes, i, us) ==
    IF i > Len(scopes) THEN [ok |-> FALSE, err |-> NilErr]
    ELSE LET s == ScopeLoop(us, 1, scopes[i])
         IN  IF s.err # NilErr THEN [ok |-> FALSE, err |-> s.err]
             ELSE IF s.matches THEN [ok |-> TRUE, err |-> NilErr]
             ELSE TargetLoop(scopes, i + 1, us)

\* evaluator.go 61-79: the outer loop over the required scopes
TargetLoop(scopes, i, us) ==
    IF i > Len(scopes) THEN [ok |-> TRUE, err |-> NilErr]
    ELSE LET s == ScopeLoop(us, 1, scopes[i])
         IN  IF s.err # NilErr THEN [ok |-> FALSE, err |-> s.err]
             ELSE IF ~s.matches THEN [ok |-> FALSE, err |-> NilErr]
             ELSE TargetLoop(scopes, i + 1, us)

\* mutant: a missing action is treated like an action granted with no scope
permEvaluate_NoLookup(p, permissions, ord) ==
    LET userScopes == IF p.Action \in DOMAIN permissions
                      THEN permissions[p.Action] ELSE {}
    IN  IF Len(p.Scopes.elems) = 0 THEN [ok |-> TRUE, err |-> NilErr]
        ELSE TargetLoop(p.Scopes.elems, 1, RangeOrder(userScopes, ord))

\* permissionEvaluator.Evaluate
permEvaluate(p, permissions, ord) ==
    IF p.Action \notin DOMAIN permissions THEN [ok |-> FALSE, err |-> NilErr]
    ELSE IF Len(p.Scopes.elems) = 0 THEN [ok |-> TRUE, err |-> NilErr]
    ELSE TargetLoop(p.Scopes.elems, 1,
                    RangeOrder(permissions[p.Action], ord))

RECURSIVE Evaluate(_, _, _, _)
RECURSIVE AllLoop(_, _, _, _, _)
RECURSIVE AnyLoop(_, _, _, _, _)

\* mutant: the child's own boolean is returned with its error
AllLoop_KeepsOk(kids, i, permissions, ord, path) ==
    IF i > Len(kids) THEN [ok |-> TRUE, err |-> NilErr, log |-> <<>>]
    ELSE LET r == Evaluate(kids[i], permissions, ord, Append(path, i))
         IN  IF ~r.ok \/ r.err # NilErr
             THEN [ok |-> r.ok, err |-> r.err, log |-> r.log]
             ELSE LET rest == AllLoop(kids, i + 1, permissions, ord, path)
                  IN  [ok |-> rest.ok, err |-> rest.err,
                       log |-> r.log \o rest.log]

\* allEvaluator.Evaluate: the loop from child i on
AllLoop(kids, i, permissions, ord, path) ==
    IF i > Len(kids) THEN [ok |-> TRUE, err |-> NilErr, log |-> <<>>]
    ELSE LET r == Evaluate(kids[i], permissions, ord, Append(path, i))
         IN  IF ~r.ok \/ r.err # NilErr
             THEN [ok |-> FALSE, err |-> r.err, log |-> r.log]
             ELSE LET rest == AllLoop(kids, i + 1, permissions, ord, path)
                  IN  [ok |-> rest.ok, err |-> rest.err,
                       log |-> r.log \o rest.log]

\* mutant: an erroring child is skipped and the later children are tried
AnyLoop_FailOpen(kids, i, permissions, ord, path) ==
    IF i > Len(kids) THEN [ok |-> FALSE, err |-> NilErr, log |-> <<>>]
    ELSE LET r == Evaluate(kids[i], permissions, ord, Append(path, i))
         IN  IF r.err = NilErr /\ r.ok
             THEN [ok |-> TRUE, err |-> NilErr, log |-> r.log]
             ELSE LET rest == AnyLoop(kids, i + 1, permissions, ord, path)
                  IN  [ok |-> rest.ok, err |-> rest.err,
                       log |-> r.log \o rest.log]

\* anyEvaluator.Evaluate: the loop from child i on
AnyLoop(kids, i, permissions, ord, path) ==
    IF i > Len(kids) THEN [ok |-> FALSE, err |-> NilErr, log |-> <<>>]
    ELSE LET r == Evaluate(kids[i], permissions, ord, Append(path, i))
         IN  IF r.err # NilErr
             THEN [ok |-> FALSE, err |-> r.err, log |-> r.log]
             ELSE IF r.ok
             THEN [ok |-> TRUE, err |-> NilErr, log |-> r.log]
             ELSE LET rest == AnyLoop(kids, i + 1, permissions, ord, path)
                  IN  [ok |-> rest.ok, err |-> rest.err,
                       log |-> r.log \o rest.log]

\* Evaluator.Evaluate, dispatched on the dynamic type of e
Evaluate(e, permissions, ord, path) ==
    LET r == CASE e.kind = "perm" ->
                    LET p == permEvaluate(e, permissions, ord)
                    IN  [ok |-> p.ok, err |-> p.err, log |-> <<>>]
               [] e.kind = "all" -> AllLoop(e.allOf, 1, permissions, ord, path)
               [] e.kind = "any" -> AnyLoop(e.anyOf, 1, permissions, ord, path)
               [] e.kind = "stub" ->
                    [ok |-> e.ok, err |-> e.err, log |-> <<>>]
    IN  [ok  |-> r.ok,
         err |-> r.err,
         log |-> Append(r.log, [path |-> path, ok |-> r.ok, err |-> r.err])]

(***************************************************************************)
(* String(): the rendering of an evaluator, as a sequence of characters.   *)
(***************************************************************************)
RECURSIVE Join(_, _)
\* strings.Join(elems, sep)
Join(elems, sep) ==
    IF Len(elems) = 0 THEN <<>>
    ELSE IF Len(elems) = 1 THEN elems[1]
    ELSE elems[1] \o sep \o Join(Tail(elems), sep)

RECURSIVE String(_)
RECURSIVE Strings_(_, _)
\* the String() of the children from child i on, in order
Strings_(kids, i) ==
    IF i > Len(kids) THEN <<>>
    ELSE <<String(kids[i])>> \o Strings_(kids, i + 1)

\* Evaluator.String, dispatched on the dynamic type of e
String(e) ==
    CASE e.kind = "perm" ->
            <<"a", "c", "t", "i", "o", "n", ":">> \o e.Action
            \o <<" ", "s", "c", "o", "p", "e", "s", ":">>
            \o Join(e.Scopes.elems, <<",", " ">>)
      [] e.kind = "all" ->
            <<"a", "l", "l", "(">> \o Join(Strings_(e.allOf, 1), <<" ">>)
            \o <<")">>
      [] e.kind = "any" ->
            <<"a", "n", "y", "(">> \o Join(Strings_(e.anyOf, 1), <<" ">>)
            \o <<")">>

(***************************************************************************)
(* ModifyScopes.  A ScopeModifier is a function from a scope to a pair     *)
(* [val, err].  The result carries, besides (res, err), the scopes the     *)
(* modifier was called with, in call order, and recv, the receiver as it   *)
(* is when the call returns: the code only reads the receiver's slices,    *)
(* which it shares with the caller's tree.                                 *)
(***************************************************************************)
RECURSIVE ResolveLoop(_, _, _, _)
\* mutant: the resolved scope is written back into the receiver's slice,
\* which is then handed out as the result
ResolveLoop_InPlace(p, m, i, scopes) ==
    IF i > Len(p.Scopes.elems)
    THEN [res |-> EvalPermission(p.Action, p.Scopes), err |-> NilErr,
          calls |-> <<>>, recv |-> p]
    ELSE LET sc == p.Scopes.elems[i]
             r  == m[sc]
         IN  IF r.err # NilErr
             THEN [res |-> NilEvaluator, err |-> r.err, calls |-> <<sc>>,
                   recv |-> p]
             ELSE LET q    == [p EXCEPT !.Scopes.elems[i] = r.val]
                      rest == ResolveLoop(q, m, i + 1, scopes)
                  IN  [rest EXCEPT !.calls = <<sc>> \o rest.calls]

\* mutant: a scope the modifier fails on is kept as it is and the error
\* is reported next to the tree built so far
ResolveLoop_BestEffort(p, m, i, scopes) ==
    IF i > Len(p.Scopes.elems)
    THEN [res |-> EvalPermission(p.Action, MakeSlice(scopes)),
          err |-> NilErr, calls |-> <<>>, recv |-> p]
    ELSE LET sc   == p.Scopes.elems[i]
             r    == m[sc]
             rest == ResolveLoop(p, m, i + 1,
                        Append(scopes, IF r.err # NilErr THEN sc ELSE r.val))
         IN  [rest EXCEPT !.calls = <<sc>> \o rest.calls,
                          !.err = IF r.err # NilErr THEN r.err ELSE rest.err]

\* mutant: the resolved scopes are collected in reverse order
ResolveLoop_Prepend(p, m, i, scopes) ==
    IF i > Len(p.Scopes.elems)
    THEN [res |-> EvalPermission(p.Action, MakeSlice(scopes)),
          err |-> NilErr, calls |-> <<>>, recv |-> p]
    ELSE LET sc == p.Scopes.elems[i]
             r  == m[sc]
         IN  IF r.err # NilErr
             THEN [res |-> NilEvaluator, err |-> r.err, calls |-> <<sc>>,
                   recv |-> p]
             ELSE LET rest == ResolveLoop(p, m, i + 1, <<r.val>> \o scopes)
                  IN  [rest EXCEPT !.calls = <<sc>> \o rest.calls]

\* mutant: the modifier's error is swallowed and the scopes resolved
\* before it are returned
ResolveLoop_Swallow(p, m, i, scopes) ==
    IF i > Len(p.Scopes.elems)
    THEN [res |-> EvalPermission(p.Action, MakeSlice(scopes)),
          err |-> NilErr, calls |-> <<>>, recv |-> p]
    ELSE LET sc == p.Scopes.elems[i]
             r  == m[sc]
         IN  IF r.err # NilErr
             THEN [res |-> EvalPermission(p.Action, MakeSlice(scopes)),
                   err |-> NilErr, calls |-> <<sc>>, recv |-> p]
             ELSE LET rest == ResolveLoop(p, m, i + 1, Append(scopes, r.val))
                  IN  [rest EXCEPT !.calls = <<sc>> \o rest.calls]

\* evaluator.go 117-125: the loop over p.Scopes from index i on, with the
\* scopes resolved so far
ResolveLoop(p, m, i, scopes) ==
    IF i > Len(p.Scopes.elems)
    THEN [res |-> EvalPermission(p.Action, MakeSlice(scopes)),
          err |-> NilErr, calls |-> <<>>, recv |-> p]
    ELSE LET sc == p.Scopes.elems[i]
             r  == m[sc]
         IN  IF r.err # NilErr
             THEN [res |-> NilEvaluator, err |-> r.err, calls |-> <<sc>>,
                   recv |-> p]
             ELSE LET rest == ResolveLoop(p, m, i + 1, Append(scopes, r.val))
                  IN  [rest EXCEPT !.calls = <<sc>> \o rest.calls]

\* mutant: the resolved scopes are collected in the receiver's own slice
\* (scopes := p.Scopes[:0]), so a successful call leaves them in the
\* caller's tree
permModifyScopes_Reuse(p, m) ==
    IF p.Scopes.nil
    THEN [res |-> EvalPermission(p.Action, NilSlice), err |-> NilErr,
          calls |-> <<>>, recv |-> p]
    ELSE LET r == ResolveLoop(p, m, 1, <<>>)
         IN  IF r.err # NilErr THEN r
             ELSE [r EXCEPT !.recv = EvalPermission(p.Action, r.res.Scopes)]

\* permissionEvaluator.ModifyScopes
permModifyScopes(p, m) ==
    IF p.Scopes.nil
    THEN [res |-> EvalPermission(p.Action, NilSlice), err |-> NilErr,
          calls |-> <<>>, recv |-> p]
    ELSE ResolveLoop(p, m, 1, <<>>)

RECURSIVE ModifyScopes(_, _)
RECURSIVE ModifyChildren(_, _, _)
\* the loop of allEvaluator.ModifyScopes and anyEvaluator.ModifyScopes over
\* the children from child i on
ModifyChildren(kids, m, i) ==
    IF i > Len(kids)
    THEN [res |-> <<>>, err |-> NilErr, calls |-> <<>>, recv |-> <<>>]
    ELSE LET r == ModifyScopes(kids[i], m)
         IN  IF r.err # NilErr
             THEN [res |-> <<>>, err |-> r.err, calls |-> r.calls,
                   recv |-> <<r.recv>> \o SubSeq(kids, i + 1, Len(kids))]
             ELSE LET rest == ModifyChildren(kids, m, i + 1)
                  IN  [res   |-> <<r.res>> \o rest.res,
                       err   |-> rest.err,
                       calls |-> r.calls \o rest.calls,
                       recv  |-> <<r.recv>> \o rest.recv]

\* allEvaluator.ModifyScopes
allModifyScopes(a, m) ==
    LET r == ModifyChildren(a.allOf, m, 1)
    IN  [res   |-> IF r.err # NilErr THEN NilEvaluator ELSE EvalAll(r.res),
         err   |-> r.err,
         calls |-> r.calls,
         recv  |-> EvalAll(r.recv)]

\* mutant: the rewritten children are wrapped in the other combinator
anyModifyScopes_AsAll(a, m) ==
    LET r == ModifyChildren(a.anyOf, m, 1)
    IN  [res   |-> IF r.err # NilErr THEN NilEvaluator ELSE EvalAll(r.res),
         err   |-> r.err,
         calls |-> r.calls,
         recv  |-> EvalAny(r.recv)]

\* anyEvaluator.ModifyScopes
anyModifyScopes(a, m) ==
    LET r == ModifyChildren(a.anyOf, m, 1)
    IN  [res   |-> IF r.err # NilErr THEN NilEvaluator ELSE EvalAny(r.res),
         err   |-> r.err,
         calls |-> r.calls,
         recv  |-> EvalAny(r.recv)]

\* Evaluator.ModifyScopes, dispatched on the dynamic type of e
ModifyScopes(e, m) ==
    CASE e.kind = "perm" -> permModifyScopes(e, m)
      [] e.kind = "all"  -> allModifyScopes(e, m)
      [] e.kind = "any"  -> anyModifyScopes(e, m)

(***************************************************************************)
(* Inputs.                                                                 *)
(***************************************************************************)
ActR == <<"r">>
ActW == <<"w">>

\* every enumeration of the set S without repetition
Orders(S) ==
    {o \in [1..Cardinality(S) -> S] : \A x \in S : \E i \in DOMAIN o : o[i] = x}

\* the sequences over S of length at most n
SeqsUpTo(S, n) == UNION {[1..k -> S] : k \in 0..n}

\* the permission maps over the given actions: an action is absent, or
\* granted with a set of at most MaxGranted of the scopes
GrantMaps(actions, scopes) ==
    UNION {[D -> {g \in SUBSET scopes : Cardinality(g) <= MaxGranted}] :
             D \in SUBSET actions}

RECURSIVE TreesOfSize(_, _)
RECURSIVE Forests(_, _)
\* the sequences of trees with n nodes in all
Forests(leaves, n) ==
    IF n = 0 THEN {<<>>}
    ELSE UNION {{<<t>> \o f : t \in TreesOfSize(leaves, k),
                             f \in Forests(leaves, n - k)} : k \in 1..n}

\* the trees of exactly n nodes built from the leaves with EvalAll and
\* EvalAny
TreesOfSize(leaves, n) ==
    (IF n = 1 THEN leaves ELSE {})
    \cup {EvalAll(f) : f \in Forests(leaves, n - 1)}
    \cup {EvalAny(f) : f \in Forests(leaves, n - 1)}

Trees(leaves, n) == UNION {TreesOfSize(leaves, k) : k \in 1..n}

\* granted scopes: empty, exact, wildcard and one with a misplaced wildcard
GrantScopes == {<<>>, <<"a">>, <<"a", ":", "*">>, <<"*", "a">>}

\* required scopes
TargetScopes == {<<>>, <<"a">>, <<"a", ":", "a">>, <<"*", "a">>}

\* permission leaves evaluated on their own
EvalLeaves ==
    {EvalPermission(a, NilSlice) : a \in {ActR, ActW}}
    \cup {EvalPermission(a, MakeSlice(ss)) :
            a \in {ActR, ActW}, ss \in SeqsUpTo(TargetScopes, MaxScopes)}

\* children of the combinators that are evaluated: two leaves and four
\* evaluators of another implementation that return an error
CombLeaves ==
    {EvalPermission(ActR, NilSlice),
     EvalPermission(ActR, MakeSlice(<<<<"a">>>>))}
    \cup {StubEvaluator(ok, err) : ok \in BOOLEAN, err \in {"E1", "E2"}}

CombGrants == GrantMaps({ActR}, {<<"a", "*">>})

\* the scopes of the trees that are rewritten, and what a modifier may
\* return for one of them
ModScopes == {<<"s">>, <<"n", ":">>}

ModOutcomes ==
    {[val |-> <<"i", "1">>, err |-> NilErr],
     [val |-> <<"i", "2">>, err |-> NilErr],
     [val |-> <<>>, err |-> "E1"],
     [val |-> <<>>, err |-> "E2"]}

Modifiers == [ModScopes -> ModOutcomes]

ModLeaves ==
    {EvalPermission(ActR, NilSlice),
     EvalPermission(ActR, MakeSlice(<<>>)),
     EvalPermission(ActR, MakeSlice(<<<<"s">>>>)),
     EvalPermission(ActW, MakeSlice(<<<<"s">>, <<"n", ":">>>>)),
     EvalPermission(ActW, MakeSlice(<<<<"n", ":">>, <<"s">>>>))}

\* values of the variables an operation has not set
NoEval == [ok |-> FALSE, err |-> "unset", log |-> <<>>]
NoMod == [res |-> NilEvaluator, err |-> "unset", calls |-> <<>>]
NoGrants == [a \in {} |-> {}]

\* no user, no parameters, no modifier called
NoUser == [UserId |-> 0, OrgId |-> 0]
NoParams == [OrgID |-> 0]
NoMut == [val |-> <<>>, err |-> "unset"]

MutatorIdle ==
    /\ user = NoUser
    /\ params = NoParams
    /\ mutRes = NoMut

\* nothing registered, nothing stored, no lookup in progress
NoLookup == [i |-> 0, waiting |-> FALSE]
NoDatabase == [up |-> TRUE, rows |-> {}]

ResolverIdle ==
    /\ registry = <<>>
    /\ regOrder = <<>>
    /\ db = NoDatabase
    /\ ctx = "live"
    /\ again = <<>>
    /\ lookup = NoLookup

ExtIdle == MutatorIdle /\ ResolverIdle /\ procs = <<>>

\* no second evaluation
MonoIdle ==
    /\ wider = NoGrants
    /\ widerRes = NoEval

\* an empty preferences table, nothing saved or read
NoQuery == [op |-> "none", key |-> <<>>, res |-> <<>>, err |-> "unset"]

\* a SavePreferences call that is not running
NoSave == [at |-> "idle"]

PrefIdle ==
    /\ prefs = {}
    /\ saved = <<>>
    /\ got = NoQuery
    /\ saving = <<>>
    /\ overlapped = FALSE

(***************************************************************************)
(* match on every pair of strings.                                         *)
(***************************************************************************)
InitMatch ==
    /\ pc = "match"
    /\ MonoIdle
    /\ PrefIdle
    /\ scope \in Strings
    /\ target \in Strings
    /\ matchRes = NoResult
    /\ tree = NilEvaluator
    /\ granted = NoGrants
    /\ evalRes = NoEval
    /\ fn = <<>>
    /\ modRes = NoMod
    /\ before = NilEvaluator
    /\ ExtIdle

Match ==
    /\ pc = "match"
    /\ matchRes' = match(scope, target)
    /\ pc' = "matched"
    /\ UNCHANGED <<scope, target, tree, granted, evalRes, fn, modRes, before,
                 extVars, resVars, procs,
                   monoVars, prefVars>>

NextMatch == Match

SpecMatch == InitMatch /\ [][NextMatch]_vars

(***************************************************************************)
(* Evaluate on a tree and a permission map.                                *)
(***************************************************************************)
InitEval ==
    /\ pc = "evaluate"
    /\ MonoIdle
    /\ PrefIdle
    /\ \/ /\ tree \in EvalLeaves
          /\ granted \in GrantMaps({ActR, ActW}, GrantScopes)
       \/ /\ tree \in Trees(CombLeaves, MaxNodes)
          /\ granted \in CombGrants
    /\ evalRes = NoEval
    /\ scope = <<>>
    /\ target = <<>>
    /\ matchRes = NoResult
    /\ fn = <<>>
    /\ modRes = NoMod
    /\ before = NilEvaluator
    /\ ExtIdle

\* every scope granted for some action
GrantedScopes(permissions) ==
    UNION {permissions[a] : a \in DOMAIN permissions}

DoEvaluate ==
    /\ pc = "evaluate"
    /\ \E ord \in Orders(GrantedScopes(granted)) :
          evalRes' = Evaluate(tree, granted, ord, <<>>)
    /\ pc' = "evaluated"
    /\ UNCHANGED <<scope, target, matchRes, tree, granted, fn, modRes, before,
                 extVars, resVars, procs,
                   monoVars, prefVars>>

NextEval == DoEvaluate

SpecEval == InitEval /\ [][NextEval]_vars

(***************************************************************************)
(* ModifyScopes on a tree with a modifier.                                 *)
(***************************************************************************)
InitModify ==
    /\ pc = "modify"
    /\ MonoIdle
    /\ PrefIdle
    /\ tree \in Trees(ModLeaves, MaxNodes)
    /\ fn = <<>>
    /\ modRes = NoMod
    /\ before = NilEvaluator
    /\ granted = NoGrants
    /\ evalRes = NoEval
    /\ scope = <<>>
    /\ target = <<>>
    /\ matchRes = NoResult
    /\ ExtIdle

DoModifyScopes ==
    /\ pc = "modify"
    /\ \E m \in Modifiers :
          LET r == ModifyScopes(tree, m)
          IN  /\ fn' = m
              /\ modRes' = [res |-> r.res, err |-> r.err, calls |-> r.calls]
              /\ tree' = r.recv
    /\ before' = tree
    /\ pc' = "modified"
    /\ UNCHANGED <<scope, target, matchRes, granted, evalRes, extVars,
                   resVars, procs,
                   monoVars, prefVars>>

NextModify == DoModifyScopes

SpecModify == InitModify /\ [][NextModify]_vars

(***************************************************************************)
(* Properties.                                                             *)
(***************************************************************************)
\* some character of s before its last position is one of chars
HasBeforeLast(s, chars) == \E i \in 1..(Len(s) - 1) : s[i] \in chars

\* s is p followed by "*" and p holds no "*"
IsStarPattern(s) ==
    /\ s # <<>>
    /\ s[Len(s)] = "*"
    /\ ~HasBeforeLast(s, {"*"})

\* s without its last character
ButLast(s) == SubSeq(s, 1, Len(s) - 1)

\* t starts with p, character by character
StartsWith(t, p) ==
    /\ Len(p) <= Len(t)
    /\ \A i \in 1..Len(p) : t[i] = p[i]

\* C2 as stated: for every granted scope p* whose only "*" is its last
\* character and every target t, match(p*, t) is true iff t starts with p.
C2_AsStated ==
    (pc = "matched" /\ IsStarPattern(scope))
        => (matchRes.ok <=> StartsWith(target, ButLast(scope)))

\* C2, amended: for every granted scope p* where p holds neither "*" nor
\* "?" and every target t, match(p*, t) is true, with no error, iff t
\* starts with p; "*" alone matches every target.
C2_WildcardPrefix ==
    (pc = "matched" /\ IsStarPattern(scope) /\ ~HasBeforeLast(scope, {"?"}))
        => /\ matchRes.ok <=> StartsWith(target, ButLast(scope))
           /\ matchRes.err = NilErr
           /\ scope = <<"*">> => matchRes.ok

\* the granted scope "*" has matched the empty target
C2_Witness ==
    /\ pc = "matched"
    /\ scope = <<"*">>
    /\ target = <<>>
    /\ matchRes.ok

\* C3 as stated: for every granted scope g that does not end in "*" and
\* every target t, match(g, t) is true iff g = t.
C3_AsStated ==
    (pc = "matched" /\ (scope = <<>> \/ scope[Len(scope)] # "*"))
        => (matchRes.ok <=> scope = target)

\* C3, amended: for every non-empty granted scope g that does not end in
\* "*" and holds no "*" or "?" before its last character, and every target
\* t, match(g, t) is true iff g = t.
C3_ExactMatch ==
    (/\ pc = "matched"
     /\ scope # <<>>
     /\ scope[Len(scope)] # "*"
     /\ ~HasBeforeLast(scope, {"*", "?"}))
        => /\ matchRes.ok <=> scope = target
           /\ matchRes.err = NilErr

\* a scope ending in "?" has matched the target equal to it
C3_Witness ==
    /\ pc = "matched"
    /\ scope = <<"a", ":", "?">>
    /\ target = scope
    /\ matchRes.ok

\* C4: for every granted scope with "*" or "?" anywhere before its last
\* position, match returns (false, nil) for every target, the target equal
\* to the scope included.
C4_InvalidNeverMatches ==
    (pc = "matched" /\ HasBeforeLast(scope, {"*", "?"}))
        => (matchRes.ok = FALSE /\ matchRes.err = NilErr)

\* match has refused a target equal to a scope with a misplaced "?"
C4_Witness ==
    /\ pc = "matched"
    /\ scope = <<"a", "?", "a">>
    /\ target = scope
    /\ matchRes = [ok |-> FALSE, err |-> NilErr]

\* Evaluate has run on a permission leaf
LeafEvaluated == pc = "evaluated" /\ tree.kind = "perm"

\* C1: for a leaf with at least one required scope whose action is a key
\* of the granted map, Evaluate returns true iff every required scope is
\* matched by some granted scope of that action; it returns false when
\* the action's set of granted scopes is empty.
C1_AllRequiredAnyGranted ==
    (/\ LeafEvaluated
     /\ Len(tree.Scopes.elems) >= 1
     /\ tree.Action \in DOMAIN granted)
        => /\ evalRes.ok <=>
                \A i \in 1..Len(tree.Scopes.elems) :
                    \E g \in granted[tree.Action] :
                        match(g, tree.Scopes.elems[i]).ok
           /\ granted[tree.Action] = {} => ~evalRes.ok

\* a leaf with two different required scopes was found satisfied by two
\* granted scopes, neither of which matches both
C1_Witness ==
    /\ LeafEvaluated
    /\ Len(tree.Scopes.elems) = 2
    /\ tree.Scopes.elems[1] # tree.Scopes.elems[2]
    /\ tree.Action \in DOMAIN granted
    /\ Cardinality(granted[tree.Action]) = 2
    /\ \A g \in granted[tree.Action] :
          \E i \in 1..2 : ~match(g, tree.Scopes.elems[i]).ok
    /\ evalRes.ok

\* C5: a leaf whose action is not a key of the granted map evaluates to
\* (false, nil) whatever its scopes; a leaf with no required scope whose
\* action is a key evaluates to (true, nil), even with no granted scope.
C5_ActionLookup ==
    LeafEvaluated
        => /\ tree.Action \notin DOMAIN granted
                => (evalRes.ok = FALSE /\ evalRes.err = NilErr)
           /\ (tree.Action \in DOMAIN granted /\ Len(tree.Scopes.elems) = 0)
                => (evalRes.ok = TRUE /\ evalRes.err = NilErr)

\* a leaf with no required scope was found satisfied by an action granted
\* with the empty set of scopes
C5_Witness ==
    /\ LeafEvaluated
    /\ Len(tree.Scopes.elems) = 0
    /\ tree.Action \in DOMAIN granted
    /\ granted[tree.Action] = {}
    /\ evalRes.ok
    /\ evalRes.err = NilErr

\* the log entries of the children of the root, in the order they returned
RootChildCalls == SelectSeq(evalRes.log, LAMBDA en : Len(en.path) = 1)

\* the children of the root were evaluated one after the other from the
\* first on, each at most once
VisitedInOrder ==
    /\ Len(RootChildCalls) <= Len(Children(tree))
    /\ \A j \in 1..Len(RootChildCalls) : RootChildCalls[j].path = <<j>>

\* C6: an All evaluates its children in order, stops at the first child
\* that is false or errors and returns (false, that child's error); it
\* returns (true, nil) exactly when every child returned (true, nil); the
\* boolean next to a non-nil error is false.
C6_AllShortCircuit ==
    (pc = "evaluated" /\ tree.kind = "all")
        => LET calls == RootChildCalls
               k     == Len(calls)
               good(c) == c.ok /\ c.err = NilErr
           IN  /\ VisitedInOrder
               /\ \A j \in 1..(k - 1) : good(calls[j])
               /\ IF k >= 1 /\ ~good(calls[k])
                  THEN evalRes.ok = FALSE /\ evalRes.err = calls[k].err
                  ELSE /\ k = Len(tree.allOf)
                       /\ evalRes.ok = TRUE
                       /\ evalRes.err = NilErr
               /\ evalRes.err # NilErr => evalRes.ok = FALSE

\* an All whose first child returned true together with an error has
\* returned false with that error, its second child not evaluated
C6_Witness ==
    /\ pc = "evaluated"
    /\ tree.kind = "all"
    /\ Len(tree.allOf) = 2
    /\ tree.allOf[1] = StubEvaluator(TRUE, "E1")
    /\ evalRes.ok = FALSE
    /\ evalRes.err = "E1"
    /\ Len(RootChildCalls) = 1

\* C7: an Any evaluates its children in order; it returns (true, nil) at
\* the first child that returns true with no error, (false, err) at the
\* first child that returns an error, later children not evaluated in
\* either case, and (false, nil) when every child returned (false, nil).
C7_AnyFailFast ==
    (pc = "evaluated" /\ tree.kind = "any")
        => LET calls == RootChildCalls
               k     == Len(calls)
           IN  /\ VisitedInOrder
               /\ \A j \in 1..(k - 1) : ~calls[j].ok /\ calls[j].err = NilErr
               /\ IF k >= 1 /\ calls[k].err # NilErr
                  THEN evalRes.ok = FALSE /\ evalRes.err = calls[k].err
                  ELSE IF k >= 1 /\ calls[k].ok
                  THEN evalRes.ok = TRUE /\ evalRes.err = NilErr
                  ELSE /\ k = Len(tree.anyOf)
                       /\ evalRes.ok = FALSE
                       /\ evalRes.err = NilErr

\* an Any whose first child errors has returned that error without
\* evaluating its second child, a leaf the granted map satisfies
C7_Witness ==
    /\ pc = "evaluated"
    /\ tree.kind = "any"
    /\ Len(tree.anyOf) = 2
    /\ tree.anyOf[1] = StubEvaluator(FALSE, "E2")
    /\ tree.anyOf[2] = EvalPermission(ActR, NilSlice)
    /\ ActR \in DOMAIN granted
    /\ evalRes.ok = FALSE
    /\ evalRes.err = "E2"
    /\ Len(RootChildCalls) = 1

RECURSIVE Flatten(_)
RECURSIVE FlattenAll(_, _)
\* the required scopes of the children from child i on, left to right
FlattenAll(kids, i) ==
    IF i > Len(kids) THEN <<>>
    ELSE Flatten(kids[i]) \o FlattenAll(kids, i + 1)

\* the required scopes of a tree, left to right
Flatten(e) ==
    IF e.kind = "perm" THEN e.Scopes.elems ELSE FlattenAll(Children(e), 1)

\* the nesting depth of a tree: 0 for a leaf or an empty combinator
RECURSIVE Depth(_)
Depth(e) ==
    IF Len(Children(e)) = 0 THEN 0
    ELSE LET ds == {Depth(Children(e)[i]) : i \in 1..Len(Children(e))}
         IN  1 + CHOOSE d \in ds : \A x \in ds : x <= d

\* r has the shape of t, and its scopes are the images under m of those
\* of t, position by position
RECURSIVE SameShape(_, _, _)
SameShape(t, r, m) ==
    /\ r.kind = t.kind
    /\ IF t.kind = "perm"
       THEN /\ r.Action = t.Action
            /\ r.Scopes.nil = t.Scopes.nil
            /\ Len(r.Scopes.elems) = Len(t.Scopes.elems)
            /\ \A i \in 1..Len(t.Scopes.elems) :
                  r.Scopes.elems[i] = m[t.Scopes.elems[i]].val
       ELSE /\ Len(Children(r)) = Len(Children(t))
            /\ \A i \in 1..Len(Children(t)) :
                  SameShape(Children(t)[i], Children(r)[i], m)

\* the position in ss of the first scope the modifier m fails on, 0 if none
FirstFailing(ss, m) ==
    IF \E i \in 1..Len(ss) : m[ss[i]].err # NilErr
    THEN CHOOSE i \in 1..Len(ss) :
            /\ m[ss[i]].err # NilErr
            /\ \A j \in 1..(i - 1) : m[ss[j]].err = NilErr
    ELSE 0

\* the permission maps a tree is evaluated against before and after it is
\* rewritten
ObservedGrants == GrantMaps({ActR, ActW}, {<<"s">>})

\* C8: ModifyScopes leaves its receiver as it was, whether it returns a
\* tree or an error: same structure, actions and scopes, and the same
\* Evaluate result for every granted map and the same String().
C8_ReceiverUnchanged ==
    pc = "modified"
        => /\ tree = before
           /\ String(tree) = String(before)
           /\ \A g \in ObservedGrants :
                 \A ord \in Orders(GrantedScopes(g)) :
                     Evaluate(tree, g, ord, <<>>) = Evaluate(before, g, ord, <<>>)

\* ModifyScopes has resolved a scope of the tree and then failed on a
\* later one
C8_Witness ==
    /\ pc = "modified"
    /\ modRes.err # NilErr
    /\ Len(modRes.calls) >= 2
    /\ Depth(before) >= 1
    /\ tree = before

\* C9: when the modifier fails on no scope of the tree, ModifyScopes
\* returns no error and a tree of the same shape at every depth, every
\* leaf with its action and with the images of its scopes in order (no
\* scope for a leaf without scopes), and calls the modifier on exactly the
\* scopes of the tree, left to right.
C9_ShapePreserved ==
    (pc = "modified" /\ FirstFailing(Flatten(before), fn) = 0)
        => /\ modRes.err = NilErr
           /\ SameShape(before, modRes.res, fn)
           /\ modRes.calls = Flatten(before)

\* an All holding an Any holding a leaf with two scopes was rewritten, the
\* two scopes to different values, beside a leaf without scopes
C9_Witness ==
    /\ pc = "modified"
    /\ modRes.err = NilErr
    /\ before.kind = "all"
    /\ Len(before.allOf) = 2
    /\ before.allOf[1].kind = "any"
    /\ Len(before.allOf[1].anyOf) = 1
    /\ before.allOf[1].anyOf[1].kind = "perm"
    /\ Len(before.allOf[1].anyOf[1].Scopes.elems) = 2
    /\ before.allOf[2] = EvalPermission(ActR, NilSlice)
    /\ modRes.res.allOf[1].anyOf[1].Scopes.elems = <<<<"i", "1">>, <<"i", "2">>>>
    /\ modRes.res.allOf[2] = EvalPermission(ActR, NilSlice)

\* C10: when the modifier fails on some scope of the tree, ModifyScopes
\* returns the error of the first failing scope in left-to-right order and
\* the nil evaluator, and the modifier was called on the scopes up to that
\* one and on none after it.
C10_ErrorAborts ==
    (pc = "modified" /\ FirstFailing(Flatten(before), fn) # 0)
        => LET flat == Flatten(before)
               k    == FirstFailing(flat, fn)
           IN  /\ modRes.err = fn[flat[k]].err
               /\ modRes.res = NilEvaluator
               /\ modRes.calls = SubSeq(flat, 1, k)

\* the modifier failed on the second scope of a leaf two levels down, with
\* a further child after it that was never rewritten
C10_Witness ==
    /\ pc = "modified"
    /\ Depth(before) = 2
    /\ Len(before.allOf) = 2
    /\ Len(Flatten(before.allOf[2])) >= 1
    /\ FirstFailing(Flatten(before), fn) = 2
    /\ Len(modRes.calls) = 2
    /\ Len(Flatten(before)) > 2
    /\ modRes.res = NilEvaluator
    /\ modRes.err # NilErr

(***************************************************************************)
(* Keyword resolution.  The scope resolver is the collaborator described   *)
(* in the design (sections 4.4 and 4.5); the evaluator only sees the       *)
(* ScopeModifier it hands out.                                             *)
(***************************************************************************)
\* largest user id
MaxUserId == 12

\* the decimal digit d as a character
Digit(d) == <<"0", "1", "2", "3", "4", "5", "6", "7", "8", "9">>[d + 1]

RECURSIVE FormatNat(_)
FormatNat(n) ==
    IF n < 10 THEN <<Digit(n)>>
    ELSE FormatNat(n \div 10) \o <<Digit(n % 10)>>

\* strconv.FormatInt(n, 10)
FormatInt(n) == IF n < 0 THEN <<"-">> \o FormatNat(-n) ELSE FormatNat(n)

\* Scope(parts...): the parts joined by colons
Scope(parts) == Join(parts, <<":">>)

Users == <<"u", "s", "e", "r", "s">>
UsersSelf == Users \o <<":", "s", "e", "l", "f">>

\* mutant: the keyword is resolved to the organisation of the user
KeywordMutator_OrgId(u, s) ==
    IF s = UsersSelf
    THEN [val |-> Scope(<<Users, <<"i", "d">>, FormatInt(u.OrgId)>>),
          err |-> NilErr, user |-> u]
    ELSE [val |-> s, err |-> NilErr, user |-> u]

\* the modifier the resolver binds to a user, applied to the scope s: the
\* keyword "users:self" becomes "users:id:<UserId>", any other scope stays.
\* The result carries the user as it is when the call returns.
KeywordMutator(u, s) ==
    IF s = UsersSelf
    THEN [val |-> Scope(<<Users, <<"i", "d">>, FormatInt(u.UserId)>>),
          err |-> NilErr, user |-> u]
    ELSE [val |-> s, err |-> NilErr, user |-> u]

\* the scopes given to the keyword modifier
KeywordScopes ==
    {<<>>, UsersSelf, Users \o <<":", "i", "d", ":", "2">>,
     Users \o <<":", "*">>, Users \o <<":", "s", "e", "l">>,
     <<"s", "e", "l", "f">>}

\* the test user has UserId 2 and OrgId 3
SignedInUsers == [UserId : 0..MaxUserId, OrgId : {3}]

InitKeyword ==
    /\ pc = "keyword"
    /\ MonoIdle
    /\ PrefIdle
    /\ user \in SignedInUsers
    /\ scope \in KeywordScopes
    /\ params = NoParams
    /\ mutRes = NoMut
    /\ ResolverIdle
    /\ procs = <<>>
    /\ target = <<>>
    /\ matchRes = NoResult
    /\ tree = NilEvaluator
    /\ granted = NoGrants
    /\ evalRes = NoEval
    /\ fn = <<>>
    /\ modRes = NoMod
    /\ before = NilEvaluator

ResolveKeyword ==
    /\ pc = "keyword"
    /\ LET r == KeywordMutator(user, scope)
       IN  /\ mutRes' = [val |-> r.val, err |-> r.err]
           /\ user' = r.user
    /\ pc' = "keyword_done"
    /\ UNCHANGED <<coreVars, params, resVars, procs,
                   monoVars, prefVars>>

NextKeyword == ResolveKeyword

SpecKeyword == InitKeyword /\ [][NextKeyword]_vars

\* sub occurs in s
Contains(s, sub) ==
    \E i \in 0..(Len(s) - Len(sub)) : SubSeq(s, i + 1, i + Len(sub)) = sub

\* the number a sequence of decimal digits stands for
RECURSIVE ParseDec(_)
ParseDec(ds) ==
    IF Len(ds) = 0 THEN 0
    ELSE 10 * ParseDec(SubSeq(ds, 1, Len(ds) - 1))
         + (CHOOSE d \in 0..9 : Digit(d) = ds[Len(ds)])

\* ds is the decimal numeral of a natural number, without leading zero
IsNumeral(ds) ==
    /\ Len(ds) >= 1
    /\ \A i \in 1..Len(ds) : \E d \in 0..9 : Digit(d) = ds[i]
    /\ Len(ds) > 1 => ds[1] # "0"

\* what the keyword modifier returns
KeywordResolved ==
    pc = "keyword_done"
        => /\ mutRes.err = NilErr
           /\ scope = UsersSelf =>
                LET pre == Users \o <<":", "i", "d", ":">>
                    id  == SubSeq(mutRes.val, Len(pre) + 1, Len(mutRes.val))
                IN  /\ HasPrefix(mutRes.val, pre)
                    /\ IsNumeral(id)
                    /\ ParseDec(id) = user.UserId
           /\ ~Contains(scope, UsersSelf) => mutRes.val = scope

\* C11: the keyword modifier bound to a user rewrites "users:self" to
\* "users:id:<the user's id in decimal>" with no error, returns every
\* scope that holds no keyword, the empty one included, unchanged with no
\* error, and leaves the user as it was.
C11_KeywordResolution == []KeywordResolved /\ [][user' = user]_vars

\* "users:self" was resolved for a user whose id has two digits
C11_Witness ==
    /\ pc = "keyword_done"
    /\ scope = UsersSelf
    /\ user.UserId = 12
    /\ mutRes.val = Users \o <<":", "i", "d", ":", "1", "2">>
    /\ mutRes.err = NilErr

(***************************************************************************)
(* ScopeInjector.  The scope is parsed and executed as a template by the   *)
(* html/template library.  A scope is here a sequence of template tokens:  *)
(* a character of literal text, the opening of an HTML tag ("<a"), a       *)
(* well-formed action naming a field ("{{.OrgID}}", "{{.Foo}}"), an        *)
(* action calling a function the template does not define ("{{foo}}"), an  *)
(* action with nothing in it ("{{}}") or the opening of an action that is  *)
(* never closed ("{{").  Neither the library nor the type ScopeParams is   *)
(* part of the sources: the library is taken as documented, and the        *)
(* parameters are any value a build can give the type, namely the names    *)
(* they supply, and what evaluating a name they do not supply does.        *)
(***************************************************************************)
\* longest template given to the injector, in tokens
MaxTplLen == 2
\* largest organisation id among the parameters
MaxOrgId == 2

\* the field a well-formed field action names
FieldOfAction ==
    [a \in {"{{.OrgID}}", "{{.Foo}}"} |->
        IF a = "{{.OrgID}}" THEN "OrgID" ELSE "Foo"]

IsAction(tok) == tok \in DOMAIN FieldOfAction

\* the opening of an action with no closing delimiter
Unclosed == "{{"

\* an action with no command in it
EmptyAction == "{{}}"

\* an action calling a function that is not defined
UndefinedCall == "{{foo}}"

\* text that opens an HTML tag and does not close it
OpenTag == "<a"

\* what evaluating a name the parameters do not supply does: an error when
\* they are a struct, nothing written when they are a map
Missing == {"error", "empty"}

\* the values ScopeParams can take: the names supplied, with their values,
\* and the treatment of the others
ScopeParamsValues ==
    [fields  : {<<>>} \cup [{"OrgID"} -> 0..MaxOrgId],
     missing : Missing]

\* template.New("scope").Parse(scope): the error, if any
ParseTemplate(s) ==
    IF \E i \in 1..Len(s) : s[i] \in {Unclosed, EmptyAction, UndefinedCall}
    THEN "parse error" ELSE NilErr

\* the escaping pass Execute runs before anything is written: the error
\* of a template that ends inside an HTML tag, if any
EscapeTemplate(s) ==
    IF \E i \in 1..Len(s) : s[i] = OpenTag THEN "escape error" ELSE NilErr

RECURSIVE ExecuteFrom(_, _, _)
\* the text written from token i on and the error, if any: literal text is
\* copied, an action is replaced by the value of the field it names
ExecuteFrom(s, ps, i) ==
    IF i > Len(s) THEN [out |-> <<>>, err |-> NilErr]
    ELSE IF /\ IsAction(s[i])
            /\ FieldOfAction[s[i]] \notin DOMAIN ps.fields
            /\ ps.missing = "error"
    THEN [out |-> <<>>, err |-> "exec error"]
    ELSE LET rest == ExecuteFrom(s, ps, i + 1)
             here == IF ~IsAction(s[i]) THEN <<s[i]>>
                     ELSE IF FieldOfAction[s[i]] \in DOMAIN ps.fields
                     THEN FormatInt(ps.fields[FieldOfAction[s[i]]])
                     ELSE <<>>
         IN  [out |-> here \o rest.out, err |-> rest.err]

\* tmpl.Execute(&buf, params): the text written and the error, if any
ExecuteTemplate(s, ps) ==
    IF EscapeTemplate(s) # NilErr
    THEN [out |-> <<>>, err |-> EscapeTemplate(s)]
    ELSE ExecuteFrom(s, ps, 1)

\* ScopeInjector(params)(scope)
ScopeInjector(ps, s) ==
    IF ParseTemplate(s) # NilErr
    THEN [val |-> <<>>, err |-> ParseTemplate(s)]
    ELSE LET x == ExecuteTemplate(s, ps)
         IN  IF x.err # NilErr THEN [val |-> <<>>, err |-> x.err]
             ELSE [val |-> x.out, err |-> NilErr]

TemplateTokens ==
    {"o", ":", OpenTag, "{{.OrgID}}", "{{.Foo}}", UndefinedCall,
     EmptyAction, Unclosed}

Templates == SeqsUpTo(TemplateTokens, MaxTplLen)

\* the scopes that stand second in a leaf
SecondTemplates == {<<"o">>, <<"{{.Foo}}">>, <<Unclosed>>}

\* a leaf requiring one or two scopes, alone or inside an Any
InjectTrees ==
    LET leaves == {EvalPermission(ActR, MakeSlice(<<s>>)) : s \in Templates}
                    \cup {EvalPermission(ActR, MakeSlice(<<s, u>>)) :
                            s \in Templates, u \in SecondTemplates}
    IN  leaves \cup {EvalAny(<<l>>) : l \in leaves}

InitInject ==
    /\ pc = "inject"
    /\ MonoIdle
    /\ PrefIdle
    /\ params \in ScopeParamsValues
    /\ tree \in InjectTrees
    /\ fn = <<>>
    /\ modRes = NoMod
    /\ before = NilEvaluator
    /\ user = NoUser
    /\ mutRes = NoMut
    /\ ResolverIdle
    /\ procs = <<>>
    /\ scope = <<>>
    /\ target = <<>>
    /\ matchRes = NoResult
    /\ granted = NoGrants
    /\ evalRes = NoEval

\* the scopes of a tree, as a set
ScopesOf(e) == {Flatten(e)[i] : i \in 1..Len(Flatten(e))}

\* tree.ModifyScopes(ScopeInjector(params))
DoInject ==
    /\ pc = "inject"
    /\ LET m == [s \in ScopesOf(tree) |-> ScopeInjector(params, s)]
           r == ModifyScopes(tree, m)
       IN  /\ fn' = m
           /\ modRes' = [res |-> r.res, err |-> r.err, calls |-> r.calls]
           /\ tree' = r.recv
    /\ before' = tree
    /\ pc' = "injected"
    /\ UNCHANGED <<scope, target, matchRes, granted, evalRes, extVars,
                   resVars, procs,
                   monoVars, prefVars>>

NextInject == DoInject

SpecInject == InitInject /\ [][NextInject]_vars

\* s holds a placeholder that is not well formed: its template does not
\* parse
Malformed(s) ==
    \E i \in 1..Len(s) : s[i] \in {Unclosed, EmptyAction, UndefinedCall}

\* s holds a well-formed placeholder naming something the parameters ps do
\* not supply
HasUnknown(s, ps) ==
    \E i \in 1..Len(s) :
       IsAction(s[i]) /\ FieldOfAction[s[i]] \notin DOMAIN ps.fields

\* C12 as stated: a scope with a placeholder outside the vocabulary is
\* returned as literal text with no error, and only a malformed
\* placeholder makes the modifier return an error, which aborts the
\* enclosing ModifyScopes call.
C12_AsStated ==
    pc = "injected"
        => /\ \A s \in ScopesOf(before) :
                /\ (HasUnknown(s, params) /\ ~Malformed(s))
                      => fn[s] = [val |-> s, err |-> NilErr]
                /\ fn[s].err # NilErr => Malformed(s)
           /\ (\E s \in ScopesOf(before) : Malformed(s))
                => (modRes.err # NilErr /\ modRes.res = NilEvaluator)

\* the one scope of a leaf names a field the parameters do not supply: it
\* came back as an error or as nothing, and in neither case as it was
C12_Witness ==
    /\ pc = "injected"
    /\ Flatten(before) = << <<"{{.Foo}}">> >>
    /\ HasUnknown(<<"{{.Foo}}">>, params)
    /\ fn[<<"{{.Foo}}">>] # [val |-> <<"{{.Foo}}">>, err |-> NilErr]
    /\ \/ /\ params.missing = "error"
          /\ modRes.err = "exec error"
          /\ modRes.res = NilEvaluator
       \/ /\ params.missing = "empty"
          /\ modRes.err = NilErr
          /\ Flatten(modRes.res) = << <<>> >>

(***************************************************************************)
(* scopePrefix: the prefix a scope is looked up by in the registry of      *)
(* attribute resolvers.                                                    *)
(***************************************************************************)
Datasources == <<"d", "a", "t", "a", "s", "o", "u", "r", "c", "e", "s">>
Name == <<"n", "a", "m", "e">>
Id == <<"i", "d">>
Testds == <<"t", "e", "s", "t", "d", "s">>

RECURSIVE IndexFrom(_, _, _)
\* the first position from i on where s holds c, 0 when there is none
IndexFrom(s, c, i) ==
    IF i > Len(s) THEN 0
    ELSE IF s[i] = c THEN i
    ELSE IndexFrom(s, c, i + 1)

\* mutant: the scope is cut after its first colon
scopePrefix_FirstColon(s) ==
    LET i1 == IndexFrom(s, ":", 1)
    IN  IF i1 = 0 THEN s ELSE SubSeq(s, 1, i1)

\* scopePrefix(scope)
scopePrefix(s) ==
    LET i1 == IndexFrom(s, ":", 1)
        i2 == IF i1 = 0 THEN 0 ELSE IndexFrom(s, ":", i1 + 1)
    IN  IF i2 = 0 THEN s ELSE SubSeq(s, 1, i2)

\* the scopes of Test_scopePrefix
PrefixExamples ==
    {<<>>, <<":">>, Datasources \o <<":">>, Scope(<<Datasources, Name, Testds>>)}

PrefixScopes == Strings \cup PrefixExamples

InitPrefix ==
    /\ pc = "prefix"
    /\ MonoIdle
    /\ PrefIdle
    /\ scope \in PrefixScopes
    /\ target = <<>>
    /\ matchRes = NoResult
    /\ tree = NilEvaluator
    /\ granted = NoGrants
    /\ evalRes = NoEval
    /\ fn = <<>>
    /\ modRes = NoMod
    /\ before = NilEvaluator
    /\ ExtIdle

\* prefix := scopePrefix(tt.scope)
TakePrefix ==
    /\ pc = "prefix"
    /\ mutRes' = [val |-> scopePrefix(scope), err |-> NilErr]
    /\ pc' = "prefixed"
    /\ UNCHANGED <<coreVars, user, params, resVars, procs,
                   monoVars, prefVars>>

NextPrefix == TakePrefix

SpecPrefix == InitPrefix /\ [][NextPrefix]_vars

\* the number of colons of s
Colons(s) == Cardinality({i \in 1..Len(s) : s[i] = ":"})

\* C19: scopePrefix(s) is the part of s up to and including its second
\* colon when s has at least two colons, and s itself when it has none or
\* one; the four scopes of the test give "", ":", "datasources:" and
\* "datasources:name:".
C19_ScopePrefix ==
    pc = "prefixed"
        => /\ IF Colons(scope) >= 2
              THEN /\ Len(mutRes.val) <= Len(scope)
                   /\ mutRes.val = SubSeq(scope, 1, Len(mutRes.val))
                   /\ Colons(mutRes.val) = 2
                   /\ mutRes.val[Len(mutRes.val)] = ":"
              ELSE mutRes.val = scope
           /\ scope = <<>> => mutRes.val = <<>>
           /\ scope = <<":">> => mutRes.val = <<":">>
           /\ scope = Datasources \o <<":">>
                => mutRes.val = Datasources \o <<":">>
           /\ scope = Scope(<<Datasources, Name, Testds>>)
                => mutRes.val = Datasources \o <<":">> \o Name \o <<":">>

\* datasources:name:testds was cut to datasources:name:
C19_Witness ==
    /\ pc = "prefixed"
    /\ scope = Datasources \o <<":">> \o Name \o <<":">> \o Testds
    /\ mutRes.val = Datasources \o <<":">> \o Name \o <<":">>

(***************************************************************************)
(* Attribute resolution.  The registry maps a scope prefix to a resolver   *)
(* function; the modifier bound to a context and an organisation looks a   *)
(* scope up by its prefix and asks the resolver for the identifier that    *)
(* stands for the scope's value.                                           *)
(***************************************************************************)
Uid == <<"u", "i", "d">>
TestUID == <<"t", "e", "s", "t", "U", "I", "D">>
Other == <<"o">>

\* the datasource of the test and one of another organisation
TestDatasource == [OrgId |-> 1, Name |-> Testds, Uid |-> TestUID, Id |-> 1]
OtherDatasource == [OrgId |-> 2, Name |-> Testds, Uid |-> Other, Id |-> 12]

\* what the store can hold; a store that is not up fails every query
Databases ==
    {[up |-> FALSE, rows |-> {}]}
      \cup {[up |-> TRUE, rows |-> rs] :
              rs \in SUBSET {TestDatasource, OtherDatasource}}

Contexts == {"live", "cancelled", "timedout"}

\* ctx.Err() of a context that is no longer live
CtxErr(c) ==
    IF c = "cancelled" THEN "context canceled"
    ELSE "context deadline exceeded"

\* the resolvers that can be registered: the prefix each is keyed by and
\* the attribute of a datasource it looks the value up in
DatasourceNameResolver ==
    [Prefix |-> Datasources \o <<":">> \o Name \o <<":">>, Attr |-> "Name"]
DatasourceUidResolver ==
    [Prefix |-> Datasources \o <<":">> \o Uid \o <<":">>, Attr |-> "Uid"]

AttributeResolvers == {DatasourceNameResolver, DatasourceUidResolver}

\* the resolver function: the id of the datasource of the organisation
\* with the given attribute value, or an error
ResolveDatasource(attr, database, c, org, value) ==
    IF c # "live" THEN [val |-> <<>>, err |-> CtxErr(c)]
    ELSE IF ~database.up THEN [val |-> <<>>, err |-> "storage failure"]
    ELSE LET rows == {r \in database.rows :
                        r.OrgId = org /\ r[attr] = value}
         IN  IF rows = {} THEN [val |-> <<>>, err |-> "not found"]
             ELSE [val |-> FormatInt((CHOOSE r \in rows : TRUE).Id),
                   err |-> NilErr]

\* mutant: a registration replaces the registry
AddAttributeResolver_Replace(reg, r) ==
    [p \in {r.Prefix} |-> r.Attr]

\* AddAttributeResolver(prefix, resolver): attributeResolvers[prefix] = fn
AddAttributeResolver(reg, r) ==
    [p \in DOMAIN reg \cup {r.Prefix} |->
        IF p = r.Prefix THEN r.Attr ELSE reg[p]]

\* the part of a prefix before its first colon
Root(prefix) == SubSeq(prefix, 1, IndexFrom(prefix, ":", 1) - 1)

\* the part of a scope after its prefix
ValueSegment(s) == SubSeq(s, Len(scopePrefix(s)) + 1, Len(s))

\* mutant: the resolver is given the whole scope
AttributeMutator_WholeScope(reg, database, c, org, s) ==
    LET prefix == scopePrefix(s)
    IN  IF prefix \in DOMAIN reg
        THEN LET r == ResolveDatasource(reg[prefix], database, c, org, s)
                 call == [Prefix |-> prefix, OrgId |-> org, Value |-> s]
             IN  IF r.err # NilErr
                 THEN [val |-> <<>>, err |-> r.err, calls |-> <<call>>]
                 ELSE [val |-> Scope(<<Root(prefix), Id, r.val>>),
                       err |-> NilErr, calls |-> <<call>>]
        ELSE [val |-> s, err |-> NilErr, calls |-> <<>>]

\* mutant: the identifier is put behind the prefix the scope came with
AttributeMutator_KeepAttribute(reg, database, c, org, s) ==
    LET prefix == scopePrefix(s)
    IN  IF prefix \in DOMAIN reg
        THEN LET value == ValueSegment(s)
                 r == ResolveDatasource(reg[prefix], database, c, org, value)
                 call == [Prefix |-> prefix, OrgId |-> org, Value |-> value]
             IN  IF r.err # NilErr
                 THEN [val |-> <<>>, err |-> r.err, calls |-> <<call>>]
                 ELSE [val |-> prefix \o r.val,
                       err |-> NilErr, calls |-> <<call>>]
        ELSE [val |-> s, err |-> NilErr, calls |-> <<>>]

\* GetResolveAttributeScopeMutator(ctx, user)(scope): the scope returned,
\* the error, and the resolver calls made
AttributeMutator(reg, database, c, org, s) ==
    LET prefix == scopePrefix(s)
    IN  IF prefix \in DOMAIN reg
        THEN LET value == ValueSegment(s)
                 r == ResolveDatasource(reg[prefix], database, c, org, value)
                 call == [Prefix |-> prefix, OrgId |-> org, Value |-> value]
             IN  IF r.err # NilErr
                 THEN [val |-> <<>>, err |-> r.err, calls |-> <<call>>]
                 ELSE [val |-> Scope(<<Root(prefix), Id, r.val>>),
                       err |-> NilErr, calls |-> <<call>>]
        ELSE [val |-> s, err |-> NilErr, calls |-> <<>>]

\* the scopes attribute resolution is tried on
AttrScopes ==
    {Scope(<<Datasources, Name, Testds>>),
     Scope(<<Datasources, Uid, TestUID>>),
     Scope(<<Datasources, Name, Other>>),
     Scope(<<Datasources, Id, <<"1">> >>),
     Datasources \o <<":">>,
     <<>>}

\* the trees of the test, for every scope: a leaf with no, one or two
\* scopes and All(leaf, Any(leaf, leaf))
AttrTrees ==
    LET leaf(s) == EvalPermission(ActR, MakeSlice(<<s>>))
    IN  {EvalPermission(ActR, NilSlice)}
          \cup {leaf(s) : s \in AttrScopes}
          \cup {EvalPermission(ActR, MakeSlice(<<s, t>>)) :
                  s \in AttrScopes, t \in AttrScopes}
          \cup {EvalAll(<<leaf(s), EvalAny(<<leaf(s), leaf(s)>>)>>) :
                  s \in AttrScopes}

InitAttribute ==
    /\ pc = "register"
    /\ MonoIdle
    /\ PrefIdle
    /\ registry = <<>>
    /\ regOrder = <<>>
    /\ db \in Databases
    /\ ctx \in Contexts
    /\ user \in [UserId : {2}, OrgId : 1..MaxOrgId]
    /\ tree \in AttrTrees
    /\ again = <<>>
    /\ lookup = NoLookup
    /\ procs = <<>>
    /\ params = NoParams
    /\ mutRes = NoMut
    /\ fn = <<>>
    /\ modRes = NoMod
    /\ before = NilEvaluator
    /\ scope = <<>>
    /\ target = <<>>
    /\ matchRes = NoResult
    /\ granted = NoGrants
    /\ evalRes = NoEval

\* resolver.AddAttributeResolver(...) at start-up
Register ==
    /\ pc = "register"
    /\ \E r \in AttributeResolvers :
         /\ r.Prefix \notin DOMAIN registry
         /\ registry' = AddAttributeResolver(registry, r)
         /\ regOrder' = Append(regOrder, r.Prefix)
    /\ UNCHANGED <<pc, coreVars, extVars, db, ctx, again, lookup, procs,
                   monoVars, prefVars>>

\* tt.evaluator.MutateScopes(resolver.GetResolveAttributeScopeMutator(ctx,
\* tt.user))
DoResolve ==
    /\ pc = "register"
    /\ LET m == [s \in ScopesOf(tree) |->
                   AttributeMutator(registry, db, ctx, user.OrgId, s)]
           r == ModifyScopes(tree, m)
       IN  /\ fn' = m
           /\ modRes' = [res |-> r.res, err |-> r.err, calls |-> r.calls]
           /\ tree' = r.recv
    /\ before' = tree
    /\ pc' = "resolved"
    /\ UNCHANGED <<scope, target, matchRes, granted, evalRes, extVars,
                   resVars, procs,
                   monoVars, prefVars>>

\* the modifier applied once more, to every scope it returned
ResolveAgain ==
    /\ pc = "resolved"
    /\ again' = [s \in {fn[x].val : x \in {y \in DOMAIN fn : fn[y].err = NilErr}}
                   |-> AttributeMutator(registry, db, ctx, user.OrgId, s)]
    /\ pc' = "resolved_again"
    /\ UNCHANGED <<coreVars, extVars, registry, regOrder, db, ctx, lookup,
                   procs,
                   monoVars, prefVars>>

NextAttribute == Register \/ DoResolve \/ ResolveAgain

SpecAttribute == InitAttribute /\ [][NextAttribute]_vars

Resolved == pc \in {"resolved", "resolved_again"}

\* the resolver registered under a prefix
ResolverOf(prefix) == CHOOSE r \in AttributeResolvers : r.Prefix = prefix

RECURSIVE RegistryOf(_)
\* the registry after registering the prefixes of order, first to last
RegistryOf(order) ==
    IF order = <<>> THEN <<>>
    ELSE AddAttributeResolver(RegistryOf(SubSeq(order, 1, Len(order) - 1)),
                              ResolverOf(order[Len(order)]))

\* the scopes of a tree after every scope was replaced through f
RECURSIVE MapScopes(_, _)
MapScopes(e, f) ==
    IF e.kind = "perm"
    THEN EvalPermission(e.Action,
            IF e.Scopes.nil THEN NilSlice
            ELSE MakeSlice([i \in 1..Len(e.Scopes.elems) |->
                              f[e.Scopes.elems[i]]]))
    ELSE LET kids == [i \in 1..Len(Children(e)) |->
                        MapScopes(Children(e)[i], f)]
         IN  IF e.kind = "all" THEN EvalAll(kids) ELSE EvalAny(kids)

\* C13: for a scope whose prefix has a registered resolver, the attribute
\* modifier calls that resolver once, with the organisation id and the
\* value segment, and, when the store holds the datasource, returns
\* root:id:<its id> with no error; with datasource "testds" of id 1 in
\* organisation 1, ModifyScopes turns a tree requiring
\* datasources:name:testds into the same tree requiring datasources:id:1,
\* actions unchanged.
C13_AttributeResolution ==
    Resolved
        => /\ \A s \in ScopesOf(before) :
                scopePrefix(s) \in DOMAIN registry
                    => /\ fn[s].calls =
                            <<[Prefix |-> scopePrefix(s),
                               OrgId  |-> user.OrgId,
                               Value  |-> ValueSegment(s)]>>
                       /\ (ctx = "live" /\ db.up)
                            => \A row \in db.rows :
                                 (/\ row.OrgId = user.OrgId
                                  /\ row[registry[scopePrefix(s)]]
                                        = ValueSegment(s))
                                    => /\ fn[s].err = NilErr
                                       /\ fn[s].val =
                                            Root(scopePrefix(s)) \o <<":">>
                                              \o Id \o <<":">>
                                              \o FormatInt(row.Id)
           /\ (/\ ScopesOf(before) = {Scope(<<Datasources, Name, Testds>>)}
               /\ DatasourceNameResolver.Prefix \in DOMAIN registry
               /\ ctx = "live" /\ db.up /\ user.OrgId = 1
               /\ TestDatasource \in db.rows)
                 => /\ modRes.err = NilErr
                    /\ modRes.res =
                         MapScopes(before,
                            [s \in ScopesOf(before) |->
                               Scope(<<Datasources, Id, <<"1">> >>)])

\* the leaf of the test was rewritten to datasources:id:1
C13_Witness ==
    /\ pc = "resolved"
    /\ before = EvalPermission(ActR,
                   MakeSlice(<<Scope(<<Datasources, Name, Testds>>)>>))
    /\ modRes.res = EvalPermission(ActR,
                       MakeSlice(<<Datasources \o <<":", "i", "d", ":", "1">> >>))
    /\ modRes.err = NilErr

\* C14: for a scope whose prefix has no registered resolver the attribute
\* modifier returns the scope unchanged, with no error and without calling
\* a resolver; and what the modifier returns for a scope is the same for
\* every order in which the registered resolvers could have been
\* registered.
C14_PassThrough ==
    Resolved
        => \A s \in ScopesOf(before) :
             /\ scopePrefix(s) \notin {regOrder[i] : i \in 1..Len(regOrder)}
                  => fn[s] = [val |-> s, err |-> NilErr, calls |-> <<>>]
             /\ \A order \in Orders({regOrder[i] : i \in 1..Len(regOrder)}) :
                  fn[s] = AttributeMutator(RegistryOf(order), db, ctx,
                                           user.OrgId, s)

\* both resolvers registered, uid first; datasources:id:1 has neither
\* prefix and came back unchanged next to a scope that was resolved
C14_Witness ==
    /\ pc = "resolved"
    /\ Len(regOrder) = 2
    /\ regOrder[1] = DatasourceUidResolver.Prefix
    /\ Flatten(before) = <<Scope(<<Datasources, Name, Testds>>),
                           Scope(<<Datasources, Id, <<"1">> >>)>>
    /\ fn[Scope(<<Datasources, Id, <<"1">> >>)].calls = <<>>
    /\ fn[Scope(<<Datasources, Name, Testds>>)].calls # <<>>
    /\ modRes.err = NilErr
    /\ Flatten(modRes.res) = <<Scope(<<Datasources, Id, <<"1">> >>),
                               Scope(<<Datasources, Id, <<"1">> >>)>>

\* C17: a second pass of the attribute modifier over its own output
\* changes nothing: for every scope s the first pass succeeds on,
\* modifier(modifier(s)) = modifier(s), with no error and no resolver call.
C17_Idempotent ==
    pc = "resolved_again"
        => \A s \in ScopesOf(before) :
             fn[s].err = NilErr
                => again[fn[s].val] =
                     [val |-> fn[s].val, err |-> NilErr, calls |-> <<>>]

\* datasources:uid:testUID became datasources:id:1 and stayed so
C17_Witness ==
    /\ pc = "resolved_again"
    /\ Scope(<<Datasources, Uid, TestUID>>) \in ScopesOf(before)
    /\ fn[Scope(<<Datasources, Uid, TestUID>>)].val
          = Scope(<<Datasources, Id, <<"1">> >>)
    /\ again[Scope(<<Datasources, Id, <<"1">> >>)].val
          = Scope(<<Datasources, Id, <<"1">> >>)

(***************************************************************************)
(* Attribute resolution with a blocking lookup.  ModifyScopes calls the    *)
(* modifier on the scopes of the tree from left to right; a call for a     *)
(* registered prefix waits for the store.  While the context is live the   *)
(* store may answer; once the context is cancelled or has timed out the    *)
(* lookup can only return the context's error.  Whether a lookup does      *)
(* return is up to the resolver function, which is not part of the         *)
(* sources: the specification lets it wait forever, and what the resolver  *)
(* owes its caller is a hypothesis of the property that needs it.  The     *)
(* context can be cancelled or time out at any moment of the call.  fn     *)
(* records what the modifier returned call by call: its i-th entry is the  *)
(* outcome of the call on the i-th scope of the tree, so that a scope that *)
(* occurs twice has an outcome for each occurrence.                        *)
(***************************************************************************)
Unreached == [val |-> <<>>, err |-> "unreached", calls |-> <<>>]

\* the calls in which the modifier failed
Failed == {i \in DOMAIN fn : fn[i].err # NilErr}

RECURSIVE TagEach(_, _, _)
\* the scopes from the i-th on, each paired with its position among the
\* scopes of the whole tree, off scopes standing before the first of them
TagEach(scopes, i, off) ==
    IF i > Len(scopes) THEN <<>>
    ELSE <<[at |-> off + i, scope |-> scopes[i]]>>
             \o TagEach(scopes, i + 1, off)

RECURSIVE TagScopes(_, _), TagChildren(_, _, _)
\* the tree e with every scope paired with its position, off scopes
\* standing before those of e
TagScopes(e, off) ==
    CASE e.kind = "perm" ->
           [e EXCEPT !.Scopes.elems = TagEach(e.Scopes.elems, 1, off)]
      [] e.kind = "all" -> EvalAll(TagChildren(e.allOf, 1, off))
      [] e.kind = "any" -> EvalAny(TagChildren(e.anyOf, 1, off))

\* the children from the i-th on, tagged
TagChildren(kids, i, off) ==
    IF i > Len(kids) THEN <<>>
    ELSE <<TagScopes(kids[i], off)>>
             \o TagChildren(kids, i + 1, off + Len(Flatten(kids[i])))

\* the modifier as ModifyScopes met it: on the scope at position i it
\* returned the i-th outcome recorded
ModifierMet(e, outcomes) ==
    [t \in ScopesOf(TagScopes(e, 0)) |->
       IF t.at <= Len(outcomes) THEN outcomes[t.at] ELSE Unreached]

\* leaves with one scope, leaves whose second lookup follows a first,
\* and the nested tree of the test
LookupTrees ==
    LET leaf(s) == EvalPermission(ActR, MakeSlice(<<s>>))
        first   == Scope(<<Datasources, Name, Testds>>)
    IN  {leaf(s) : s \in AttrScopes}
          \cup {EvalPermission(ActR, MakeSlice(<<first, t>>)) :
                  t \in AttrScopes}
          \cup {EvalAll(<<leaf(first), EvalAny(<<leaf(first), leaf(first)>>)>>)}

InitLookup ==
    /\ pc = "lookup"
    /\ MonoIdle
    /\ PrefIdle
    /\ regOrder \in {<<DatasourceNameResolver.Prefix>>,
                     <<DatasourceNameResolver.Prefix,
                       DatasourceUidResolver.Prefix>>}
    /\ registry = RegistryOf(regOrder)
    /\ db \in Databases
    /\ ctx = "live"
    /\ user \in [UserId : {2}, OrgId : 1..MaxOrgId]
    /\ tree \in LookupTrees
    /\ fn = <<>>
    /\ lookup = [i |-> 1, waiting |-> FALSE]
    /\ again = <<>>
    /\ procs = <<>>
    /\ params = NoParams
    /\ mutRes = NoMut
    /\ modRes = NoMod
    /\ before = NilEvaluator
    /\ scope = <<>>
    /\ target = <<>>
    /\ matchRes = NoResult
    /\ granted = NoGrants
    /\ evalRes = NoEval

\* the caller cancels the context
Cancel ==
    /\ pc = "lookup"
    /\ ctx = "live"
    /\ ctx' = "cancelled"
    /\ UNCHANGED <<pc, coreVars, extVars, registry, regOrder, db, again,
                   lookup, procs,
                   monoVars, prefVars>>

\* the deadline of the context passes
Timeout ==
    /\ pc = "lookup"
    /\ ctx = "live"
    /\ ctx' = "timedout"
    /\ UNCHANGED <<pc, coreVars, extVars, registry, regOrder, db, again,
                   lookup, procs,
                   monoVars, prefVars>>

\* the scope the modifier is called on next
NextScope == Flatten(tree)[lookup.i]

\* what the modifier returns for the next scope under the context as it is
Outcome == AttributeMutator(registry, db, ctx, user.OrgId, NextScope)

\* ModifyScopes calls the modifier on the next scope: an unregistered
\* prefix is answered at once, a registered one starts a lookup
CallModifier ==
    /\ pc = "lookup"
    /\ ~lookup.waiting
    /\ Failed = {}
    /\ lookup.i <= Len(Flatten(tree))
    /\ IF scopePrefix(NextScope) \in DOMAIN registry
       THEN /\ lookup' = [lookup EXCEPT !.waiting = TRUE]
            /\ fn' = fn
       ELSE /\ lookup' = [lookup EXCEPT !.i = @ + 1]
            /\ fn' = Append(fn, Outcome)
    /\ UNCHANGED <<pc, scope, target, matchRes, tree, granted, evalRes,
                   modRes, before, extVars, registry, regOrder, db, ctx,
                   again, procs,
                   monoVars, prefVars>>

\* the store answers the lookup made under a live context
DbReply ==
    /\ pc = "lookup"
    /\ lookup.waiting
    /\ ctx = "live"
    /\ fn' = Append(fn, Outcome)
    /\ lookup' = [i |-> lookup.i + 1, waiting |-> FALSE]
    /\ UNCHANGED <<pc, scope, target, matchRes, tree, granted, evalRes,
                   modRes, before, extVars, registry, regOrder, db, ctx,
                   again, procs,
                   monoVars, prefVars>>

\* the lookup returns the error of a context that is no longer live
LookupAborted ==
    /\ pc = "lookup"
    /\ lookup.waiting
    /\ ctx # "live"
    /\ fn' = Append(fn, Outcome)
    /\ lookup' = [i |-> lookup.i + 1, waiting |-> FALSE]
    /\ UNCHANGED <<pc, scope, target, matchRes, tree, granted, evalRes,
                   modRes, before, extVars, registry, regOrder, db, ctx,
                   again, procs,
                   monoVars, prefVars>>

\* mutant: ModifyScopes does not return on the modifier's error, it calls
\* the modifier on the same scope again
ReturnModify_Retry ==
    /\ pc = "lookup"
    /\ ~lookup.waiting
    /\ Failed # {} \/ lookup.i > Len(Flatten(tree))
    /\ IF Failed # {}
       THEN /\ fn' = SubSeq(fn, 1, Len(fn) - 1)
            /\ lookup' = [lookup EXCEPT !.i = @ - 1]
            /\ UNCHANGED <<pc, tree, modRes, before>>
       ELSE /\ \E tagged \in {TagScopes(tree, 0)},
                  m \in {ModifierMet(tree, fn)} :
                 \E r \in {ModifyScopes(tagged, m)} :
                    /\ modRes' = [res   |-> r.res, err |-> r.err,
                                  calls |-> [i \in 1..Len(r.calls) |->
                                               r.calls[i].scope]]
                    /\ tree' = IF r.recv = tagged THEN tree ELSE r.recv
            /\ before' = tree
            /\ pc' = "looked_up"
            /\ UNCHANGED <<fn, lookup>>
    /\ UNCHANGED <<scope, target, matchRes, granted, evalRes, extVars,
                   registry, regOrder, db, ctx, again, procs,
                   monoVars, prefVars>>

\* ModifyScopes returns: after the last scope, or on the first error
ReturnModify ==
    /\ pc = "lookup"
    /\ ~lookup.waiting
    /\ Failed # {} \/ lookup.i > Len(Flatten(tree))
    /\ \E tagged \in {TagScopes(tree, 0)}, m \in {ModifierMet(tree, fn)} :
         \E r \in {ModifyScopes(tagged, m)} :
            /\ modRes' = [res   |-> r.res, err |-> r.err,
                          calls |-> [i \in 1..Len(r.calls) |->
                                       r.calls[i].scope]]
            /\ tree' = IF r.recv = tagged THEN tree ELSE r.recv
    /\ before' = tree
    /\ pc' = "looked_up"
    /\ UNCHANGED <<scope, target, matchRes, granted, evalRes, fn, extVars,
                   resVars, procs,
                   monoVars, prefVars>>

NextLookup ==
    Cancel \/ Timeout \/ CallModifier \/ DbReply \/ LookupAborted
      \/ ReturnModify

\* the caller's goroutine keeps running: once the modifier has returned,
\* ModifyScopes goes on to its own return.  Nothing is assumed of the
\* resolver function: a lookup may wait forever, under any context
SpecLookup ==
    /\ InitLookup
    /\ [][NextLookup]_vars
    /\ WF_vars(ReturnModify)

\* the errors a resolver can return for s under the store and the contexts
\* seen during the call
ResolverErrors(s) ==
    {ResolveDatasource(registry[scopePrefix(s)], db, c, user.OrgId,
                       ValueSegment(s)).err : c \in {"live", ctx}}
      \ {NilErr}

\* whenever the resolver failed for a scope, the modifier returned the
\* resolver's error and ModifyScopes returned it with no tree, having
\* called the modifier on the scopes up to that one, once per occurrence
ErrorPropagated ==
    (pc = "looked_up" /\ Failed # {})
        => /\ modRes.res = NilEvaluator
           /\ Failed = {Len(fn)}
           /\ modRes.err = fn[Len(fn)].err
           /\ modRes.calls = SubSeq(Flatten(before), 1, Len(fn))
           /\ LET s == Flatten(before)[Len(fn)]
              IN  /\ scopePrefix(s) \in DOMAIN registry
                  /\ fn[Len(fn)].err \in ResolverErrors(s)

\* a lookup is waiting under a context that is cancelled or timed out
LookupCancelled == pc = "lookup" /\ lookup.waiting /\ ctx # "live"

\* ModifyScopes has returned the context's error and no tree
EndedInError ==
    /\ pc = "looked_up"
    /\ modRes.err = CtxErr(ctx)
    /\ modRes.res = NilEvaluator

\* the modifier has returned an error and ModifyScopes has not returned yet
ModifierFailed == pc = "lookup" /\ Failed # {}

\* ModifyScopes has returned the error of the modifier and no tree
ErrorReturned ==
    /\ pc = "looked_up"
    /\ Failed # {}
    /\ modRes.err = fn[Len(fn)].err
    /\ modRes.res = NilEvaluator

\* what the resolver function owes its caller: a lookup whose context is
\* cancelled or timed out does not wait forever, it returns
RespectsCancellation == WF_vars(LookupAborted)

MaxCalls == 2

RECURSIVE LeavesOf(_)
RECURSIVE LeavesOfAll(_, _)
LeavesOfAll(kids, i) ==
    IF i > Len(kids) THEN <<>>
    ELSE LeavesOf(kids[i]) \o LeavesOfAll(kids, i + 1)

\* the permission leaves of a tree, left to right
LeavesOf(e) ==
    IF e.kind = "perm" THEN <<e>> ELSE LeavesOfAll(Children(e), 1)

RECURSIVE WithLeaves(_, _)
\* the tree e with its leaves replaced, left to right, by those of ls
WithLeaves(e, ls) ==
    IF e.kind = "perm" THEN ls[1]
    ELSE LET kids   == Children(e)
             off(i) == Len(LeavesOfAll(SubSeq(kids, 1, i - 1), 1))
             new    == [i \in 1..Len(kids) |->
                          WithLeaves(kids[i],
                             SubSeq(ls, off(i) + 1,
                                    off(i) + Len(LeavesOf(kids[i]))))]
         IN  IF e.kind = "all" THEN EvalAll(new) ELSE EvalAny(new)

\* the modifiers of the calls: each rewrites the two scopes of the trees
\* in its own way, or fails on one, and returns a rewritten scope as it is
ConcModifiers ==
    LET mod(a, b) ==
          [s \in ModScopes \cup {<<"i", "1">>, <<"i", "2">>} |->
             IF s = <<"s">> THEN a
             ELSE IF s = <<"n", ":">> THEN b
             ELSE [val |-> s, err |-> NilErr]]
        ok(v) == [val |-> v, err |-> NilErr]
    IN  <<mod(ok(<<"i", "1">>), ok(<<"i", "2">>)),
          mod(ok(<<"i", "2">>), ok(<<"i", "1">>)),
          mod(ok(<<"i", "1">>), [val |-> <<>>, err |-> "E1"])>>

\* the permissions of the calls: the first two are satisfied by the scopes
\* the trees hold, the third only by rewritten scopes
ConcGrants ==
    <<[a \in {ActR} |-> {<<"s">>}],
      [a \in {ActR, ActW} |-> {<<"s">>, <<"n", ":">>}],
      [a \in {ActR, ActW} |-> {<<"i", "1">>, <<"i", "2">>}]>>

ConcTrees ==
    LET ls == EvalPermission(ActR, MakeSlice(<<<<"s">>>>))
        lw == EvalPermission(ActW, MakeSlice(<<<<"s">>, <<"n", ":">>>>))
    IN  {ls, lw, EvalAll(<<ls, lw>>), EvalAny(<<lw, EvalAll(<<ls>>)>>)}

\* the calls: which operation, and which modifier or permissions
CallIds(ms, gs) ==
    {[op |-> "modify", n |-> i] : i \in ms}
      \cup {[op |-> "evaluate", n |-> i] : i \in gs}

NoCall == [val |-> NilEvaluator, err |-> "unset"]

InitConcurrent ==
    /\ pc = "concurrent"
    /\ MonoIdle
    /\ PrefIdle
    /\ tree \in ConcTrees
    /\ before = tree
    /\ \E ms \in SUBSET (1..Len(ConcModifiers)),
          gs \in SUBSET (1..Len(ConcGrants)) :
         /\ Cardinality(ms) = MaxCalls
         /\ Cardinality(gs) = MaxCalls
         /\ procs = [c \in CallIds(ms, gs) |->
                       [seen |-> <<>>, done |-> FALSE, res |-> NoCall]]
    /\ fn = <<>>
    /\ modRes = NoMod
    /\ scope = <<>>
    /\ target = <<>>
    /\ matchRes = NoResult
    /\ granted = NoGrants
    /\ evalRes = NoEval
    /\ MutatorIdle
    /\ ResolverIdle

RECURSIVE PathsOf(_, _), PathsOfAll(_, _, _)
\* the paths of the permission leaves below e, left to right, path being
\* the path of e
PathsOf(e, path) ==
    IF e.kind = "perm" THEN <<path>> ELSE PathsOfAll(Children(e), 1, path)

PathsOfAll(kids, i, path) ==
    IF i > Len(kids) THEN <<>>
    ELSE PathsOf(kids[i], Append(path, i)) \o PathsOfAll(kids, i + 1, path)

\* the leaves Evaluate reads on e, in the order it reads them, each as its
\* position among the leaves of e: allEvaluator returns at the first child
\* that is false or fails, anyEvaluator at the first that is true or fails,
\* and the leaves of the later children are not read
Visited(e, permissions, ord) ==
    LET paths  == PathsOf(e, <<>>)
        isLeaf(en) == \E i \in 1..Len(paths) : paths[i] = en.path
        reads  == SelectSeq(Evaluate(e, permissions, ord, <<>>).log, isLeaf)
    IN  [k \in 1..Len(reads) |->
           CHOOSE i \in 1..Len(paths) : paths[i] = reads[k].path]

\* the tree as call c has read it: each leaf it has read as it was when it
\* read it, the others as they are now
Observed(c) ==
    LET seen == procs[c].seen
        now  == LeavesOf(tree)
    IN  WithLeaves(tree,
           [i \in 1..Len(now) |->
              IF \E k \in 1..Len(seen) : seen[k].at = i
              THEN seen[CHOOSE k \in 1..Len(seen) : seen[k].at = i].leaf
              ELSE now[i]])

\* call c reads the leaf at position at
Read(c, at) ==
    Append(procs[c].seen, [at |-> at, leaf |-> LeavesOf(tree)[at]])

\* a ModifyScopes call rewrites its next leaf; it returns after the last
\* leaf or on the modifier's first error
ModifyStep(c) ==
    /\ pc = "concurrent"
    /\ c.op = "modify"
    /\ ~procs[c].done
    /\ LET m    == ConcModifiers[c.n]
           at   == Len(procs[c].seen) + 1
           r    == permModifyScopes(LeavesOf(tree)[at], m)
           last == at = Len(LeavesOf(tree))
           all  == ModifyScopes(Observed(c), m)
       IN  /\ tree' = WithLeaves(tree,
                         [LeavesOf(tree) EXCEPT ![at] = r.recv])
           /\ procs' = [procs EXCEPT ![c] =
                 IF r.err # NilErr \/ last
                 THEN [seen |-> Read(c, at), done |-> TRUE,
                       res |-> [val |-> all.res, err |-> all.err]]
                 ELSE [@ EXCEPT !.seen = Read(c, at)]]
    /\ UNCHANGED <<pc, scope, target, matchRes, granted, evalRes, fn, modRes,
                   before, extVars, resVars,
                   monoVars, prefVars>>

\* an Evaluate call reads the next leaf it visits; it returns after the
\* last leaf it visits, which the leaves read so far decide
EvaluateStep(c) ==
    /\ pc = "concurrent"
    /\ c.op = "evaluate"
    /\ ~procs[c].done
    /\ LET g == ConcGrants[c.n]
           n == Len(procs[c].seen)
       IN  \E ord \in Orders(GrantedScopes(g)) :
             LET r      == Evaluate(Observed(c), g, ord, <<>>)
                 visits == Visited(Observed(c), g, ord)
             IN  /\ n < Len(visits)
                 /\ procs' = [procs EXCEPT ![c] =
                       IF Len(visits) = n + 1
                       THEN [seen |-> Read(c, visits[n + 1]), done |-> TRUE,
                             res |-> [val |-> r.ok, err |-> r.err]]
                       ELSE [@ EXCEPT !.seen = Read(c, visits[n + 1])]]
    /\ UNCHANGED <<pc, coreVars, extVars, resVars,
                   monoVars, prefVars>>

NextConcurrent ==
    \E c \in DOMAIN procs : ModifyStep(c) \/ EvaluateStep(c)

SpecConcurrent == InitConcurrent /\ [][NextConcurrent]_vars

\* what call c returns when it runs alone on the tree e
Alone(c, e) ==
    IF c.op = "modify"
    THEN LET r == ModifyScopes(e, ConcModifiers[c.n])
         IN  {[val |-> r.res, err |-> r.err]}
    ELSE {[val |-> Evaluate(e, ConcGrants[c.n], ord, <<>>).ok,
           err |-> Evaluate(e, ConcGrants[c.n], ord, <<>>).err] :
            ord \in Orders(GrantedScopes(ConcGrants[c.n]))}

\* the positions of the leaves call c reads when it runs alone on e
ReadsAlone(c, e) ==
    IF c.op = "modify"
    THEN LET stop == CHOOSE n \in 1..Len(LeavesOf(e)) :
                  /\ \/ n = Len(LeavesOf(e))
                     \/ permModifyScopes(LeavesOf(e)[n],
                           ConcModifiers[c.n]).err # NilErr
                  /\ \A k \in 1..(n - 1) :
                       permModifyScopes(LeavesOf(e)[k],
                          ConcModifiers[c.n]).err = NilErr
         IN  {[k \in 1..stop |-> k]}
    ELSE {Visited(e, ConcGrants[c.n], ord) :
            ord \in Orders(GrantedScopes(ConcGrants[c.n]))}

\* the positions of the leaves call c has read
ReadsOf(c) == [k \in 1..Len(procs[c].seen) |-> procs[c].seen[k].at]

\* C16: concurrent ModifyScopes and Evaluate calls on one tree, with
\* different modifiers and different permissions, in any interleaving:
\* every call returns what it returns when run alone on the tree, having
\* read the leaves it reads when run alone, every leaf a call reads is the
\* leaf of the tree as it was before the calls, and the tree is unchanged.
C16_ConcurrentCalls ==
    pc = "concurrent"
        => /\ tree = before
           /\ \A c \in DOMAIN procs :
                /\ \A k \in 1..Len(procs[c].seen) :
                     procs[c].seen[k].leaf
                       = LeavesOf(before)[procs[c].seen[k].at]
                /\ procs[c].done
                     => /\ procs[c].res \in Alone(c, before)
                        /\ Cardinality(Alone(c, before)) = 1
                        /\ ReadsOf(c) \in ReadsAlone(c, before)

\* one ModifyScopes call has returned a rewritten tree and another has
\* failed while an Evaluate call is between two leaves and another has
\* returned true after the first of the two leaves
C16_Witness ==
    /\ pc = "concurrent"
    /\ Len(LeavesOf(before)) = 2
    /\ \E c, d \in DOMAIN procs :
         /\ c.op = "modify" /\ d.op = "modify"
         /\ procs[c].done /\ procs[c].res.err = NilErr
         /\ Flatten(procs[c].res.val) # Flatten(before)
         /\ procs[d].done /\ procs[d].res.err = "E1"
    /\ \E c, d \in DOMAIN procs :
         /\ c.op = "evaluate" /\ d.op = "evaluate"
         /\ ~procs[c].done /\ Len(procs[c].seen) = 1
         /\ procs[d].done /\ procs[d].res.val = TRUE
         /\ ReadsOf(d) = <<1>>

(***************************************************************************)
(* The empty granted scope, in match and in the evaluation of a leaf.      *)
(***************************************************************************)
InitEmpty == InitMatch \/ InitEval

NextEmpty == Match \/ DoEvaluate

SpecEmpty == InitEmpty /\ [][NextEmpty]_vars

\* C18: an empty granted scope never matches: match("", t) is (false, nil)
\* for every target t, the empty one included, so a leaf that requires the
\* empty scope is not satisfied when the only scope granted for its action
\* is the empty scope.
C18_EmptyNeverMatches ==
    /\ (pc = "matched" /\ scope = <<>>)
          => matchRes = [ok |-> FALSE, err |-> NilErr]
    /\ (/\ pc = "evaluated"
        /\ tree.kind = "perm"
        /\ tree.Action \in DOMAIN granted
        /\ granted[tree.Action] = {<<>>}
        /\ \E i \in 1..Len(tree.Scopes.elems) : tree.Scopes.elems[i] = <<>>)
          => (~evalRes.ok /\ evalRes.err = NilErr)

\* a leaf requiring only the empty scope was evaluated against a grant of
\* only the empty scope, and refused
C18_Witness ==
    /\ pc = "evaluated"
    /\ tree = EvalPermission(ActR, MakeSlice(<<<<>>>>))
    /\ granted = [a \in {ActR} |-> {<<>>}]
    /\ ~evalRes.ok
    /\ evalRes.err = NilErr

(***************************************************************************)
(* The error of Evaluate.                                                  *)
(***************************************************************************)
\* e is built from permission leaves, All and Any only
RECURSIVE StubFree(_)
StubFree(e) ==
    /\ e.kind \in {"perm", "all", "any"}
    /\ \A i \in 1..Len(Children(e)) : StubFree(Children(e)[i])

\* C20: for every tree of permission leaves, All and Any and every granted
\* map, Evaluate returns a nil error, no evaluator inside the tree returns
\* an error either, and the result is the same for every iteration order
\* of the granted scopes.
C20_NilError ==
    (pc = "evaluated" /\ StubFree(tree))
        => /\ evalRes.err = NilErr
           /\ \A i \in 1..Len(evalRes.log) : evalRes.log[i].err = NilErr
           /\ \A ord \in Orders(GrantedScopes(granted)) :
                /\ Evaluate(tree, granted, ord, <<>>).ok = evalRes.ok
                /\ Evaluate(tree, granted, ord, <<>>).err = NilErr

\* a leaf was satisfied by one of two granted scopes, the other of which
\* is invalid, with no error
C20_Witness ==
    /\ pc = "evaluated"
    /\ tree = EvalPermission(ActR, MakeSlice(<<<<"a">>>>))
    /\ granted = [a \in {ActR} |-> {<<"*", "a">>, <<"a">>}]
    /\ evalRes.ok
    /\ evalRes.err = NilErr

(***************************************************************************)
(* Evaluation under more permissions.  A tree is evaluated under a granted *)
(* map and then under a map that includes it: the same actions and scopes  *)
(* and possibly more of either.                                            *)
(***************************************************************************)
\* wide has every action of narrow, each with at least narrow's scopes
Includes(wide, narrow) ==
    /\ DOMAIN narrow \subseteq DOMAIN wide
    /\ \A a \in DOMAIN narrow : narrow[a] \subseteq wide[a]

MonoLeaves ==
    {EvalPermission(ActR, MakeSlice(<<<<"a">>>>)),
     EvalPermission(ActW, MakeSlice(<<<<"a">>, <<"a", ":", "a">>>>)),
     EvalPermission(ActW, NilSlice)}

\* leaves, All and Any of two leaves, and an Any under an All
MonoTrees ==
    MonoLeaves
      \cup {EvalAll(<<k, l>>) : k \in MonoLeaves, l \in MonoLeaves}
      \cup {EvalAny(<<k, l>>) : k \in MonoLeaves, l \in MonoLeaves}
      \cup {EvalAll(<<k, EvalAny(<<k, l>>)>>) :
              k \in MonoLeaves, l \in MonoLeaves}

MonoGrants == GrantMaps({ActR, ActW}, GrantScopes)

InitMonotone ==
    /\ pc = "evaluate"
    /\ MonoIdle
    /\ PrefIdle
    /\ tree \in MonoTrees
    /\ granted \in MonoGrants
    /\ evalRes = NoEval
    /\ scope = <<>>
    /\ target = <<>>
    /\ matchRes = NoResult
    /\ fn = <<>>
    /\ modRes = NoMod
    /\ before = NilEvaluator
    /\ ExtIdle

\* the tree is evaluated again, under permissions that include the first
EvaluateWider ==
    /\ pc = "evaluated"
    /\ \E g \in MonoGrants :
         /\ Includes(g, granted)
         /\ wider' = g
         /\ \E ord \in Orders(GrantedScopes(g)) :
              widerRes' = Evaluate(tree, g, ord, <<>>)
    /\ pc' = "evaluated_wider"
    /\ UNCHANGED <<coreVars, extVars, resVars, procs, prefVars>>

NextMonotone == DoEvaluate \/ EvaluateWider

SpecMonotone == InitMonotone /\ [][NextMonotone]_vars

\* C21: evaluation is monotone in the grants: when G' has every action of
\* G and for each of them every scope of G, and possibly more actions and
\* scopes, empty and invalid ones included, a tree that evaluates to true
\* under G evaluates to true under G'.
C21_Monotone ==
    (/\ pc = "evaluated_wider"
     /\ Includes(wider, granted)
     /\ evalRes.ok /\ evalRes.err = NilErr)
        => (widerRes.ok /\ widerRes.err = NilErr)

\* a tree satisfied by the scope "a" alone stays satisfied after an
\* invalid scope was added for the action and another action was granted
\* the empty scope
C21_Witness ==
    /\ pc = "evaluated_wider"
    /\ tree = EvalAll(<<EvalPermission(ActR, MakeSlice(<<<<"a">>>>)),
                        EvalAny(<<EvalPermission(ActR, MakeSlice(<<<<"a">>>>)),
                                  EvalPermission(ActW, NilSlice)>>)>>)
    /\ granted = [a \in {ActR} |-> {<<"a">>}]
    /\ wider = [a \in {ActR, ActW} |->
                  IF a = ActR THEN {<<"a">>, <<"*", "a">>} ELSE {<<>>}]
    /\ evalRes.ok
    /\ widerRes.ok

(***************************************************************************)
(* The preferences store (sqlstore/preferences.go).  The table holds one   *)
(* row of preferences per (org, user, team) key that was saved.            *)
(* GetPreferences makes one query.  SavePreferences makes two inside one   *)
(* transaction: it reads the row of the key, then inserts a row or updates *)
(* the row it read by its Id.  The code takes no lock and src/ declares no *)
(* unique key, so another call can run between the two: a database that    *)
(* refuses the second write is the failing session, one that makes the     *)
(* second call wait is the calls coming one after the other.  A session    *)
(* can fail at either query, and then the handler returns the error and    *)
(* the table is as before.  The Created and Updated times of a row are     *)
(* left out.                                                               *)
(***************************************************************************)
\* the number of SavePreferences calls that succeed or are running
MaxSaves == 3

\* the SavePreferences calls that can run at once
SaveCalls == 1..MaxCalls

\* the keys: the preferences of a user and those of a team
PrefKeys ==
    {[OrgId |-> 1, UserId |-> 2, TeamId |-> 0],
     [OrgId |-> 1, UserId |-> 0, TeamId |-> 3]}

\* the preferences the commands carry: two that differ in every field and
\* one that differs from the first in the timezone alone
PrefValues ==
    {[HomeDashboardId |-> 5, Timezone |-> "utc", WeekStart |-> "",
      Theme |-> "dark"],
     [HomeDashboardId |-> 0, Timezone |-> "browser", WeekStart |-> "monday",
      Theme |-> "light"],
     [HomeDashboardId |-> 5, Timezone |-> "browser", WeekStart |-> "",
      Theme |-> "dark"]}

\* models.SavePreferencesCommand
SavePreferencesCommands ==
    {[OrgId |-> k.OrgId, UserId |-> k.UserId, TeamId |-> k.TeamId,
      HomeDashboardId |-> v.HomeDashboardId, Timezone |-> v.Timezone,
      WeekStart |-> v.WeekStart, Theme |-> v.Theme] :
        k \in [OrgId : {1}, UserId : {0, 2}, TeamId : {0, 3}],
        v \in PrefValues}

KeyOf(c) == [OrgId |-> c.OrgId, UserId |-> c.UserId, TeamId |-> c.TeamId]

\* new(models.Preferences)
ZeroPreferences ==
    [Id |-> 0, OrgId |-> 0, UserId |-> 0, TeamId |-> 0, Version |-> 0,
     HomeDashboardId |-> 0, Timezone |-> "", WeekStart |-> "", Theme |-> ""]

\* sess.Where("org_id=? AND user_id=? AND team_id=?", ...): the rows found
RowsOf(table, key) == {r \in table : KeyOf(r) = key}

\* preferences.go 99-110: the row built from the command and inserted
InsertedRow(table, c) ==
    [Id |-> Cardinality(table) + 1,
     OrgId |-> c.OrgId, UserId |-> c.UserId, TeamId |-> c.TeamId,
     Version |-> 0,
     HomeDashboardId |-> c.HomeDashboardId,
     Timezone |-> c.Timezone,
     WeekStart |-> c.WeekStart,
     Theme |-> c.Theme]

\* preferences.go 113-117: the row read, with the fields the code assigns
UpdatedRow(row, c) ==
    [row EXCEPT !.HomeDashboardId = c.HomeDashboardId,
                !.WeekStart = c.WeekStart,
                !.Theme = c.Theme,
                !.Version = @ + 1]

\* the number of commands saved so far
Saves ==
    LET RECURSIVE Sum(_)
        Sum(ks) == IF ks = {} THEN 0
                   ELSE LET k == CHOOSE x \in ks : TRUE
                        IN  saved[k].n + Sum(ks \ {k})
    IN  Sum(DOMAIN saved)

\* the SavePreferences calls between their read and their write
Running == {i \in SaveCalls : saving[i] # NoSave}

InitPreferences ==
    /\ pc = "store"
    /\ prefs = {}
    /\ saved = <<>>
    /\ got = NoQuery
    /\ saving = [i \in SaveCalls |-> NoSave]
    /\ overlapped = FALSE
    /\ MonoIdle
    /\ tree = NilEvaluator
    /\ granted = NoGrants
    /\ evalRes = NoEval
    /\ scope = <<>>
    /\ target = <<>>
    /\ matchRes = NoResult
    /\ fn = <<>>
    /\ modRes = NoMod
    /\ before = NilEvaluator
    /\ ExtIdle

\* preferences.go 93-96: call i starts and reads the row of the command's
\* key; the read fails, finds no row, or finds a row
SaveGet(i) ==
    /\ pc = "store"
    /\ saving[i] = NoSave
    /\ \A j \in SaveCalls : j < i => saving[j] # NoSave
    /\ Saves + Cardinality(Running) < MaxSaves
    /\ \E c \in SavePreferencesCommands, fails \in BOOLEAN :
         /\ KeyOf(c) \in PrefKeys
         /\ IF fails
            THEN /\ got' = [op |-> "save", key |-> KeyOf(c), res |-> <<>>,
                            err |-> "session failed"]
                 /\ UNCHANGED <<saving, overlapped>>
            ELSE /\ LET rows == RowsOf(prefs, KeyOf(c))
                    IN  IF rows = {}
                        THEN saving' = [saving EXCEPT ![i] =
                               [at |-> "read", cmd |-> c, exists |-> FALSE,
                                row |-> ZeroPreferences]]
                        ELSE \E row \in rows :
                               saving' = [saving EXCEPT ![i] =
                                 [at |-> "read", cmd |-> c, exists |-> TRUE,
                                  row |-> row]]
                 /\ overlapped' = (overlapped \/ Running # {})
                 /\ got' = got
    /\ UNCHANGED <<pc, coreVars, extVars, resVars, procs, monoVars, prefs,
                   saved>>

\* preferences.go 98-119: call i inserts the command's row when its read
\* found none, or else writes the row it read, updated, over the row of
\* that Id; the write fails or is committed
SaveWrite(i) ==
    /\ pc = "store"
    /\ saving[i] # NoSave
    /\ saving' = [saving EXCEPT ![i] = NoSave]
    /\ LET c == saving[i].cmd
       IN  \E fails \in BOOLEAN :
             IF fails
             THEN /\ got' = [op |-> "save", key |-> KeyOf(c), res |-> <<>>,
                             err |-> "session failed"]
                  /\ UNCHANGED <<prefs, saved>>
             ELSE /\ prefs' =
                       IF ~saving[i].exists
                       THEN prefs \cup {InsertedRow(prefs, c)}
                       ELSE {IF r.Id = saving[i].row.Id
                             THEN UpdatedRow(saving[i].row, c) ELSE r :
                               r \in prefs}
                  /\ saved' =
                       [k \in DOMAIN saved \cup {KeyOf(c)} |->
                          IF k = KeyOf(c)
                          THEN [last |-> c,
                                n |-> IF k \in DOMAIN saved
                                      THEN saved[k].n + 1 ELSE 1]
                          ELSE saved[k]]
                  /\ got' = [op |-> "save", key |-> KeyOf(c), res |-> <<>>,
                             err |-> NilErr]
    /\ UNCHANGED <<pc, coreVars, extVars, resVars, procs, monoVars,
                   overlapped>>

\* SQLStore.SavePreferences(ctx, cmd): a step of one of the calls
SavePreferences == \E i \in SaveCalls : SaveGet(i) \/ SaveWrite(i)

\* SQLStore.GetPreferences(ctx, query)
GetPreferences ==
    /\ pc = "store"
    /\ \E key \in PrefKeys, fails \in BOOLEAN :
         IF fails
         THEN got' = [op |-> "get", key |-> key, res |-> <<>>,
                      err |-> "session failed"]
         ELSE LET rows == RowsOf(prefs, key)
              IN  IF rows = {}
                  THEN got' = [op |-> "get", key |-> key,
                               res |-> ZeroPreferences, err |-> NilErr]
                  ELSE \E row \in rows :
                         got' = [op |-> "get", key |-> key, res |-> row,
                                 err |-> NilErr]
    /\ UNCHANGED <<pc, coreVars, extVars, resVars, procs, monoVars, prefs,
                   saved, saving, overlapped>>

NextPreferences == SavePreferences \/ GetPreferences

SpecPreferences == InitPreferences /\ [][NextPreferences]_vars

\* GetPreferences has just returned the row of a key that was saved
GotSaved ==
    /\ pc = "store"
    /\ got.op = "get"
    /\ got.err = NilErr
    /\ got.key \in DOMAIN saved

\* the calls so far came one after the other: none started while another
\* was between its read and its write
InSequence == ~overlapped

\* C22 as stated: after any sequence of successful SavePreferences calls,
\* one call after the other, GetPreferences for a key returns the
\* HomeDashboardId, Timezone, WeekStart and Theme of the most recent
\* command saved for that key, whether that command inserted the row or
\* updated it; there is at most one row per key, and each update raises
\* the row's Version by exactly 1.
C22_AsStated ==
    InSequence =>
      /\ \A k \in PrefKeys : Cardinality(RowsOf(prefs, k)) <= 1
      /\ \A k \in DOMAIN saved :
           \A r \in RowsOf(prefs, k) : r.Version = saved[k].n - 1
      /\ GotSaved
            => /\ got.res.HomeDashboardId
                    = saved[got.key].last.HomeDashboardId
               /\ got.res.Timezone = saved[got.key].last.Timezone
               /\ got.res.WeekStart = saved[got.key].last.WeekStart
               /\ got.res.Theme = saved[got.key].last.Theme

\* the user's preferences were saved twice, the second time with another
\* timezone, and GetPreferences returns the timezone of the first
C22_Witness ==
    /\ InSequence
    /\ GotSaved
    /\ saved[got.key].n = 2
    /\ saved[got.key].last.Timezone = "browser"
    /\ got.res.Timezone = "utc"
    /\ got.res.Version = 1
    /\ got.res.Theme = saved[got.key].last.Theme

(***************************************************************************)
(* All the operations together.                                            *)
(***************************************************************************)
Init ==
    \/ InitMatch \/ InitEval \/ InitModify
    \/ InitKeyword \/ InitInject \/ InitPrefix
    \/ InitAttribute \/ InitLookup \/ InitConcurrent
    \/ InitMonotone \/ InitPreferences

Next ==
    \/ Match \/ DoEvaluate \/ DoModifyScopes
    \/ NextKeyword \/ NextInject \/ NextPrefix
    \/ NextAttribute \/ NextLookup \/ NextConcurrent
    \/ EvaluateWider \/ NextPreferences

Spec == Init /\ [][Next]_vars

====
